---- MODULE Spec2Model ----
(***************************************************************************)
(* United Pharmacy LMS dashboard: the filter engine of Dashboard           *)
(* (filteredData), the table view state of useDataTable, the leaderboards  *)
(* of Leaderboard, the lists of ActionableInsights, the KPIs of            *)
(* ComparisonTool, the monthly trend of TrendAnalysis, and the rollups of  *)
(* BranchComparison, CourseAnalysis, EngagementPerformance and Overview;   *)
(* the load effect and the navigation of Dashboard, the chart clicks, the  *)
(* debounce of FilterPanel, Select All of MultiSelectFilter, and the dark  *)
(* class under useTheme and ExportButton.                                  *)
(***************************************************************************)
EXTENDS Integers, Sequences, FiniteSets, TLC

VARIABLES
  \* Dashboard
  allData, filters, filteredData,
  \* useDataTable
  items, searchTerm, sortConfig, currentPage, rowsPerPage, compareOrder,
  \* Leaderboard
  data, topTrainees,
  \* ActionableInsights
  thresholds,
  \* ComparisonTool
  groupA, groupB,
  \* TrendAnalysis
  showMA,
  \* BranchComparison
  viewType, sortBy,
  \* Dashboard: the load and the section on screen
  sheetUrl, loading, error, loadPc, activeSection, selectedLearnerEmail,
  \* FilterPanel
  localFilters, handler,
  \* useTheme and ExportButton
  theme, rootDark, exportPc, isDarkMode

dashVars == <<allData, filters, filteredData>>
tableVars == <<items, searchTerm, sortConfig, currentPage, rowsPerPage, compareOrder>>
boardVars == <<data, topTrainees>>
insightVars == <<thresholds>>
compareVars == <<groupA, groupB>>
trendVars == <<showMA>>
branchVars == <<viewType, sortBy>>
sessionVars == <<sheetUrl, loading, error, loadPc, activeSection, selectedLearnerEmail>>
panelVars == <<localFilters, handler>>
themeVars == <<theme, rootDark, exportPc, isDarkMode>>
vars ==
  <<dashVars, tableVars, boardVars, insightVars, compareVars, trendVars, branchVars,
    sessionVars, panelVars, themeVars>>

\* What a component leaves alone: the state of the other components.
otherThanDash ==
  <<tableVars, boardVars, insightVars, compareVars, trendVars, branchVars,
    sessionVars, panelVars, themeVars>>
otherThanTable ==
  <<dashVars, boardVars, insightVars, compareVars, trendVars, branchVars,
    sessionVars, panelVars, themeVars>>
otherThanBoard ==
  <<dashVars, tableVars, insightVars, compareVars, trendVars, branchVars,
    sessionVars, panelVars, themeVars>>
otherThanInsights ==
  <<dashVars, tableVars, boardVars, compareVars, trendVars, branchVars,
    sessionVars, panelVars, themeVars>>
otherThanComparison ==
  <<dashVars, tableVars, boardVars, insightVars, trendVars, branchVars,
    sessionVars, panelVars, themeVars>>
otherThanTrend ==
  <<dashVars, tableVars, boardVars, insightVars, compareVars, branchVars,
    sessionVars, panelVars, themeVars>>
otherThanBranch ==
  <<dashVars, tableVars, boardVars, insightVars, compareVars, trendVars,
    sessionVars, panelVars, themeVars>>
otherThanSession ==
  <<dashVars, tableVars, boardVars, insightVars, compareVars, trendVars,
    branchVars, panelVars, themeVars>>
otherThanPanel ==
  <<dashVars, tableVars, boardVars, insightVars, compareVars, trendVars,
    branchVars, sessionVars, themeVars>>
otherThanTheme ==
  <<dashVars, tableVars, boardVars, insightVars, compareVars, trendVars,
    branchVars, sessionVars, panelVars>>

(***************************************************************************)
(* Values                                                                  *)
(***************************************************************************)

\* Date | null of timePeriodFilter: null is the empty sequence, a date d is <<d>>.
Null == <<>>
Some(d) == <<d>>

\* Longest record list the loader hands over.
MaxRecords == 3

Range(s) == {s[i] : i \in 1..Len(s)}

\* Rows of the sheet as mapRowToTrainingRecord leaves them, without the id,
\* which is the row's position: every dimension takes a selected value, a
\* value only the two-element selection holds, and a value no selection holds.
RecordPool ==
  { [branch |-> "b1", districtHead |-> "d1", supervisor |-> "s1",
     courseTitle |-> "c1", courseType |-> "Mandatory", completionDate |-> 2,
     traineeName |-> "A", completionRate |-> 20, preAssessmentScore |-> 40,
     postAssessmentScore |-> 80, trainingHours |-> 2],
    [branch |-> "b2", districtHead |-> "d2", supervisor |-> "s2",
     courseTitle |-> "c2", courseType |-> "Optional", completionDate |-> 1,
     traineeName |-> "B", completionRate |-> 50, preAssessmentScore |-> 40,
     postAssessmentScore |-> 0, trainingHours |-> 1],
    [branch |-> "", districtHead |-> "d3", supervisor |-> "",
     courseTitle |-> "c3", courseType |-> "Mandatory", completionDate |-> 3,
     traineeName |-> "C", completionRate |-> 70, preAssessmentScore |-> 0,
     postAssessmentScore |-> 81, trainingHours |-> 3],
    [branch |-> "b1", districtHead |-> "d2", supervisor |-> "s3",
     courseTitle |-> "c1", courseType |-> "Optional", completionDate |-> 2,
     traineeName |-> "A", completionRate |-> 90, preAssessmentScore |-> 80,
     postAssessmentScore |-> 90, trainingHours |-> 1] }

\* id: index + 1, the 1-based position of the row.
mapRowToTrainingRecord(row, index) ==
  [id |-> index + 1, branch |-> row.branch, districtHead |-> row.districtHead,
   supervisor |-> row.supervisor, courseTitle |-> row.courseTitle,
   courseType |-> row.courseType, completionDate |-> row.completionDate,
   traineeName |-> row.traineeName, completionRate |-> row.completionRate,
   preAssessmentScore |-> row.preAssessmentScore,
   postAssessmentScore |-> row.postAssessmentScore, trainingHours |-> row.trainingHours]

\* parsedData.map(mapRowToTrainingRecord)
fetchTrainingData(rows) ==
  [i \in 1..Len(rows) |-> mapRowToTrainingRecord(rows[i], i - 1)]

SheetRows == UNION {[1..n -> RecordPool] : n \in 0..MaxRecords}

\* The selections a MultiSelectFilter hands to handleMultiSelectChange, by filter.
Selections ==
  [branchFilter |-> {<<>>, <<"b1">>, <<"b1", "b2">>},
   districtHeadFilter |-> {<<>>, <<"d1">>, <<"d1", "d2">>},
   supervisorFilter |-> {<<>>, <<"s1">>, <<"s1", "s2">>},
   courseFilter |-> {<<>>, <<"c1">>, <<"c1", "c2">>},
   courseTypeFilter |-> {<<>>, <<"Mandatory">>, <<"Mandatory", "Optional">>}]

\* The values of a date input: cleared, or a day.
DateInputs == {Null, Some(2)}

initialFilters ==
  [branchFilter |-> <<>>, districtHeadFilter |-> <<>>, supervisorFilter |-> <<>>,
   courseFilter |-> <<>>, courseTypeFilter |-> <<>>,
   timePeriodFilter |-> [start |-> Null, end |-> Null]]

(***************************************************************************)
(* Filter engine                                                           *)
(***************************************************************************)

\* Array.prototype.includes
includes(selection, value) == \E i \in 1..Len(selection) : selection[i] = value

branchMatch(item, f) ==
  Len(f.branchFilter) = 0 \/ includes(f.branchFilter, item.branch)

districtHeadMatch(item, f) ==
  Len(f.districtHeadFilter) = 0 \/ includes(f.districtHeadFilter, item.districtHead)

\* An empty supervisor selection that matches no record.
supervisorMatchNonEmpty(item, f) == includes(f.supervisorFilter, item.supervisor)

supervisorMatch(item, f) ==
  Len(f.supervisorFilter) = 0 \/ includes(f.supervisorFilter, item.supervisor)

courseMatch(item, f) ==
  Len(f.courseFilter) = 0 \/ includes(f.courseFilter, item.courseTitle)

courseTypeMatch(item, f) ==
  Len(f.courseTypeFilter) = 0 \/ includes(f.courseTypeFilter, item.courseType)

\* A start date that lets through only the later days.
startDateMatchStrict(item, f) ==
  f.timePeriodFilter.start = Null \/ item.completionDate > f.timePeriodFilter.start[1]

startDateMatch(item, f) ==
  f.timePeriodFilter.start = Null \/ item.completionDate >= f.timePeriodFilter.start[1]

endDateMatch(item, f) ==
  f.timePeriodFilter.end = Null \/ item.completionDate <= f.timePeriodFilter.end[1]

\* The predicate of allData.filter(item => ...).
Matches(item, f) ==
  /\ branchMatch(item, f) /\ districtHeadMatch(item, f) /\ supervisorMatch(item, f)
  /\ courseMatch(item, f) /\ courseTypeMatch(item, f)
  /\ startDateMatch(item, f) /\ endDateMatch(item, f)

\* A filter that leaves out the first matching record.
filteredDataSkippingFirst(records, f) ==
  LET kept == SelectSeq(records, LAMBDA item : Matches(item, f))
  IN  IF kept = <<>> THEN kept ELSE Tail(kept)

\* allData.filter(...): the matching records, in input order.
filteredDataOf(records, f) == SelectSeq(records, LAMBDA item : Matches(item, f))

\* The leaderboard while another component is looked at.
BoardIdle == data = <<>> /\ topTrainees = <<>>

DEFAULT_THRESHOLDS ==
  [AT_RISK_COMPLETION |-> 30, AT_RISK_SCORE |-> 50,
   COURSE_ATTENTION_COMPLETION |-> 60, COURSE_ATTENTION_SCORE |-> 60]

\* The thresholds of ActionableInsights as useState leaves them.
InsightsIdle == thresholds = DEFAULT_THRESHOLDS

\* The groups of ComparisonTool as useState leaves them.
ComparisonIdle ==
  /\ groupA = [category |-> "", value |-> ""]
  /\ groupB = [category |-> "", value |-> ""]

\* The moving-average switch of TrendAnalysis as useState leaves it.
TrendIdle == showMA = TRUE

\* The view of BranchComparison as useState leaves it.
BranchIdle == viewType = "all" /\ sortBy = "completionRate"

\* The address of the sheet as Dashboard.tsx has it.
GOOGLE_SHEET_CSV_URL == "https://docs.google.com/spreadsheets/d/e/.../pub?gid=0&single=true&output=csv"

\* The runs of the load effect: one per mount, and a second one where
\* React.StrictMode mounts the component twice (a development build).
EffectRuns == {"mount", "strictRemount"}

\* The load has settled with the records, and the overview is on screen.
SessionIdle ==
  /\ sheetUrl = GOOGLE_SHEET_CSV_URL
  /\ loading = FALSE /\ error = Null
  /\ loadPc = [run \in EffectRuns |-> IF run = "mount" THEN "loaded" ELSE "none"]
  /\ activeSection = "overview" /\ selectedLearnerEmail = ""

\* FilterPanel with no edit pending.
PanelIdle == localFilters = initialFilters /\ handler = Null

\* The export slots: the calls of handleExport that can be in flight together.
MaxExports == 2
Exports == 1..MaxExports

\* The light theme, and no export in flight.
ThemeIdle ==
  /\ theme = "light" /\ rootDark = FALSE
  /\ exportPc = [e \in Exports |-> "idle"] /\ isDarkMode = [e \in Exports |-> FALSE]

\* No table is mounted.
TableIdle ==
  /\ items = <<>> /\ searchTerm = <<>> /\ sortConfig = [key |-> "", direction |-> "descending"]
  /\ currentPage = 1 /\ rowsPerPage = 1 /\ compareOrder = "laterFirst"

DashInit ==
  /\ allData = <<>>
  /\ filters = initialFilters
  /\ filteredData = filteredDataOf(allData, filters)

\* .then(data => setAllData(data)), and the filteredData memo recomputed.
SetAllData ==
  /\ allData = <<>>
  /\ \E rows \in SheetRows :
       /\ allData' = fetchTrainingData(rows)
       /\ filters' = filters
       /\ filteredData' = filteredDataOf(allData', filters')
  /\ UNCHANGED otherThanDash

\* handleMultiSelectChange(filterName, selected) on localFilters, then the
\* debounce timer of FilterPanel: setFilters(localFilters) when the two differ,
\* and the filteredData memo recomputed.
handleMultiSelectChange ==
  \E filterName \in DOMAIN Selections : \E selected \in Selections[filterName] :
    /\ selected # filters[filterName]
    /\ filters' = [filters EXCEPT ![filterName] = selected]
    /\ allData' = allData
    /\ filteredData' = filteredDataOf(allData', filters')
    /\ UNCHANGED otherThanDash

\* handleDateChange(type, e) on localFilters, then the debounce timer.
handleDateChange ==
  \E type \in {"start", "end"} : \E newDate \in DateInputs :
    /\ newDate # filters.timePeriodFilter[type]
    /\ filters' = [filters EXCEPT !.timePeriodFilter[type] = newDate]
    /\ allData' = allData
    /\ filteredData' = filteredDataOf(allData', filters')
    /\ UNCHANGED otherThanDash

\* handleResetFilters: setFilters(initialFilters).
handleResetFilters ==
  /\ filters' = initialFilters
  /\ allData' = allData
  /\ filteredData' = filteredDataOf(allData', filters')
  /\ UNCHANGED otherThanDash

InitFilter == DashInit /\ TableIdle /\ BoardIdle /\ InsightsIdle /\ ComparisonIdle /\ TrendIdle /\ BranchIdle /\ SessionIdle /\ PanelIdle /\ ThemeIdle

NextFilter ==
  SetAllData \/ handleMultiSelectChange \/ handleDateChange \/ handleResetFilters

SpecFilter == InitFilter /\ [][NextFilter]_vars

(***************************************************************************)
(* Filter engine: properties                                               *)
(***************************************************************************)

\* The record field each selection is compared with.
FieldOf ==
  [branchFilter |-> "branch", districtHeadFilter |-> "districtHead",
   supervisorFilter |-> "supervisor", courseFilter |-> "courseTitle",
   courseTypeFilter |-> "courseType"]

\* The record passes: in every dimension with a non-empty selection its field
\* is a member of the selection, and its date is within the bounds that are set.
Passes(r, f) ==
  /\ \A k \in DOMAIN FieldOf : f[k] # <<>> => r[FieldOf[k]] \in Range(f[k])
  /\ f.timePeriodFilter.start # Null => r.completionDate >= f.timePeriodFilter.start[1]
  /\ f.timePeriodFilter.end # Null => r.completionDate <= f.timePeriodFilter.end[1]

AllSelectionsEmpty(f) ==
  /\ \A k \in DOMAIN FieldOf : f[k] = <<>>
  /\ f.timePeriodFilter.start = Null /\ f.timePeriodFilter.end = Null

\* C1: a record of allData is in filteredData exactly when it passes every
\* dimension with a non-empty selection and both date bounds that are set, and
\* filteredData lists the passing records once each, in their input order.
C1_FilteredDataIsThePassingRecords ==
  LET passing == {i \in 1..Len(allData) : Passes(allData[i], filters)}
  IN  /\ \A i \in 1..Len(allData) :
            (allData[i] \in Range(filteredData)) <=> (i \in passing)
      /\ Range(filteredData) \subseteq Range(allData)
      /\ Len(filteredData) = Cardinality(passing)
      /\ \A j, k \in 1..Len(filteredData) :
            j < k => filteredData[j].id < filteredData[k].id

\* Two of three records pass a filter with selections and both date bounds set.
C1_Witness ==
  /\ Len(allData) = 3 /\ Len(filteredData) = 2
  /\ filters.branchFilter = <<"b1", "b2">> /\ filters.courseTypeFilter # <<>>
  /\ filters.timePeriodFilter.start # Null /\ filters.timePeriodFilter.end # Null

\* C2: with all five selections empty and both date bounds null, filteredData
\* is the whole record list in the same order.
C2_EmptySelectionsPassAll ==
  AllSelectionsEmpty(filters) => filteredData = allData

\* Three records are loaded, one with an empty supervisor, and all are listed.
C2_Witness ==
  /\ AllSelectionsEmpty(filters) /\ Len(allData) = 3 /\ filteredData = allData
  /\ \E i \in 1..3 : allData[i].supervisor = ""

\* C3: filtering filteredData again with the same filters gives filteredData.
C3_FilteringIsIdempotent ==
  filteredDataOf(filteredData, filters) = filteredData

\* A filter that dropped one record and kept two.
C3_Witness ==
  /\ Len(allData) = 3 /\ Len(filteredData) = 2
  /\ filteredDataOf(filteredData, filters) = filteredData

(***************************************************************************)
(* useDataTable: rows, strings and cell values                             *)
(***************************************************************************)

\* rowsPerPage: the default of useDataTable, and the value Leaderboard passes.
DefaultRowsPerPage == 10
LeaderboardRowsPerPage == 5

\* Longest table of the catalogue.
MaxRows == 12

\* A string is the sequence of its characters.
Lower ==
  [c \in {"A", "B", "N", "R", "a", "b", "l", "n", "r", "u", "z", " ",
          "0", "1", "2", "3", "4", "5", "6", "7", "8", "9"} |->
     CASE c = "A" -> "a" [] c = "B" -> "b" [] c = "N" -> "n" [] c = "R" -> "r"
       [] OTHER -> c]

\* String.prototype.toLowerCase
toLowerCase(str) == [i \in 1..Len(str) |-> Lower[str[i]]]

\* The UTF-16 code units that order the characters under < and >.
CodeUnit ==
  [c \in DOMAIN Lower |->
     CASE c = " " -> 32 [] c = "0" -> 48 [] c = "1" -> 49 [] c = "2" -> 50
       [] c = "3" -> 51 [] c = "4" -> 52 [] c = "5" -> 53 [] c = "6" -> 54
       [] c = "7" -> 55 [] c = "8" -> 56 [] c = "9" -> 57
       [] c = "A" -> 65 [] c = "B" -> 66 [] c = "N" -> 78 [] c = "R" -> 82
       [] c = "a" -> 97 [] c = "b" -> 98 [] c = "l" -> 108 [] c = "n" -> 110
       [] c = "r" -> 114 [] c = "u" -> 117 [] c = "z" -> 122]

Digit == [d \in 0..9 |-> <<"0", "1", "2", "3", "4", "5", "6", "7", "8", "9">>[d + 1]]

\* Number to string, for the naturals.
RECURSIVE NumberToString(_)
NumberToString(n) ==
  IF n < 10 THEN <<Digit[n]>> ELSE NumberToString(n \div 10) \o <<Digit[n % 10]>>

\* A cell of a row: null, a number or a string.
NullCell == [type |-> "null", v |-> <<>>]
Num(n) == [type |-> "number", v |-> <<n>>]
Str(chars) == [type |-> "string", v |-> chars]

\* String.prototype.includes
stringIncludes(str, part) ==
  \E i \in 0..(Len(str) - Len(part)) : SubSeq(str, i + 1, i + Len(part)) = part

\* The columns of a row, in the order Object.values lists them.
Columns == <<"name", "score">>

RowPool ==
  { [name |-> Str(<<"A", "n", "n">>), score |-> Num(2)],
    [name |-> Str(<<"b", "a", "n">>), score |-> Num(2)],
    [name |-> Str(<<"A", "l">>), score |-> NullCell],
    [name |-> Str(<<"B", "a", "r">>), score |-> Num(1)],
    [name |-> Str(<<"n", "u", "l", "l">>), score |-> NullCell] }

\* Row i of the catalogue: names r1, R2, r3, ..., scores with ties and nulls.
CatalogueRow(i) ==
  [name |-> Str(<<IF i % 2 = 0 THEN "R" ELSE "r">> \o NumberToString(i)),
   score |-> IF i % 4 = 2 THEN NullCell ELSE Num(i % 3)]

\* The row lists a table is given: the first n rows of the catalogue, and
\* one row or two distinct rows of RowPool in either order.
Tables ==
  {[i \in 1..n |-> CatalogueRow(i)] : n \in 0..MaxRows}
    \cup {<<r>> : r \in RowPool}
    \cup {<<t[1], t[2]>> : t \in {u \in RowPool \X RowPool : u[1] # u[2]}}

\* What the search box can hold.
SearchTerms ==
  { <<>>, <<"R", "1">>, <<"2">>, <<"n", " ", "2">>, <<"n", "2">>,
    <<"n", "u", "l", "l">>, <<"z", "z">> }

(***************************************************************************)
(* useDataTable: derived values                                            *)
(***************************************************************************)

NoKey == ""

\* An element of Array.prototype.join: null and undefined give the empty string.
joinElement(cell) ==
  CASE cell.type = "null" -> <<>>
    [] cell.type = "number" -> NumberToString(cell.v[1])
    [] OTHER -> cell.v

\* Object.values(item).join(' ')
RECURSIVE joinValues(_, _)
joinValues(item, n) ==
  IF n = 0 THEN <<>>
  ELSE IF n = 1 THEN joinElement(item[Columns[1]])
  ELSE joinValues(item, n - 1) \o <<" ">> \o joinElement(item[Columns[n]])

\* A row string that is not lowercased.
rowStringCaseSensitive(item) == joinValues(item, Len(Columns))

\* Object.values(item).join(' ').toLowerCase()
rowStringOf(item) == toLowerCase(joinValues(item, Len(Columns)))

\* The row string of every row, computed once.
AllRows == RowPool \cup {CatalogueRow(i) : i \in 1..MaxRows}
RowStrings == [item \in AllRows |-> rowStringOf(item)]

rowString(item) == RowStrings[item]

\* The filteredItems memo.
filteredItemsOf(rows, term) ==
  IF term = <<>> THEN rows
  ELSE LET lowercasedSearchTerm == toLowerCase(term)
       IN  SelectSeq(rows, LAMBDA item : stringIncludes(rowString(item), lowercasedSearchTerm))

filteredItems == filteredItemsOf(items, searchTerm)

\* aValue < bValue, on two numbers or on two strings.
RECURSIVE LessThan(_, _)
LessThan(a, b) ==
  IF a.type = "number" THEN a.v[1] < b.v[1]
  ELSE IF a.v = <<>> THEN b.v # <<>>
  ELSE IF b.v = <<>> THEN FALSE
  ELSE IF CodeUnit[Head(a.v)] # CodeUnit[Head(b.v)]
         THEN CodeUnit[Head(a.v)] < CodeUnit[Head(b.v)]
  ELSE LessThan(Str(Tail(a.v)), Str(Tail(b.v)))

\* A comparator under which a null value sorts first when ascending.
compareNullsByDirection(a, b, config) ==
  LET aValue == a[config.key]
      bValue == b[config.key]
      up == config.direction = "ascending"
  IN  IF aValue.type = "null" THEN (IF up THEN -1 ELSE 1)
      ELSE IF bValue.type = "null" THEN (IF up THEN 1 ELSE -1)
      ELSE IF LessThan(aValue, bValue) THEN (IF up THEN -1 ELSE 1)
      ELSE IF LessThan(bValue, aValue) THEN (IF up THEN 1 ELSE -1)
      ELSE 0

\* The comparator handed to sortableItems.sort.
compare(a, b, config) ==
  LET aValue == a[config.key]
      bValue == b[config.key]
  IN  IF aValue.type = "null" THEN 1
      ELSE IF bValue.type = "null" THEN -1
      ELSE IF LessThan(aValue, bValue)
             THEN (IF config.direction = "ascending" THEN -1 ELSE 1)
      ELSE IF LessThan(bValue, aValue)
             THEN (IF config.direction = "ascending" THEN 1 ELSE -1)
      ELSE 0

\* Array.prototype.sort as a stable insertion sort. The comparator answers 1
\* for two null values whichever comes first, so the engine's order of the two
\* arguments decides where a null row lands among the null rows: order is
\* "laterFirst" when the engine asks comparefn(later, earlier) < 0, and
\* "earlierFirst" when it asks comparefn(earlier, later) > 0.
MovesBefore(x, e, config, order) ==
  IF order = "laterFirst" THEN compare(x, e, config) < 0 ELSE compare(e, x, config) > 0

RECURSIVE InsertSorted(_, _, _, _)
InsertSorted(sorted, x, config, order) ==
  IF sorted # <<>> /\ MovesBefore(x, sorted[Len(sorted)], config, order)
    THEN InsertSorted(SubSeq(sorted, 1, Len(sorted) - 1), x, config, order)
           \o <<sorted[Len(sorted)]>>
    ELSE sorted \o <<x>>

RECURSIVE ArraySort(_, _, _, _)
ArraySort(rows, n, config, order) ==
  IF n = 0 THEN <<>>
  ELSE InsertSorted(ArraySort(rows, n - 1, config, order), rows[n], config, order)

\* The sortedItems memo.
sortedItemsOf(rows, config, order) ==
  IF config.key # NoKey THEN ArraySort(rows, Len(rows), config, order) ELSE rows

sortedItems == sortedItemsOf(filteredItems, sortConfig, compareOrder)

\* A page count without the fallback to 1.
pageCountOrZero(n, perPage) == (n + perPage - 1) \div perPage

\* Math.ceil(sortedItems.length / rowsPerPage) || 1
pageCountOf(n, perPage) ==
  LET ceil == (n + perPage - 1) \div perPage
  IN  IF ceil = 0 THEN 1 ELSE ceil

\* pageCount as a function of the hook's arguments and state.
pageCountIn(rows, term, config, order, perPage) ==
  pageCountOf(Len(sortedItemsOf(filteredItemsOf(rows, term), config, order)), perPage)

pageCount == pageCountIn(items, searchTerm, sortConfig, compareOrder, rowsPerPage)

Min(a, b) == IF a < b THEN a ELSE b
Max(a, b) == IF a > b THEN a ELSE b

\* A shown page that is the stored page, unclamped.
actualCurrentPageUnclamped(page, count) == page

\* Math.min(currentPage, pageCount)
actualCurrentPageOf(page, count) == Min(page, count)

actualCurrentPage == actualCurrentPageOf(currentPage, pageCount)

\* Array.prototype.slice(start, end) with 0 <= start
slice(rows, start, end) ==
  [i \in 1..Max(0, Min(end, Len(rows)) - start) |-> rows[start + i]]

\* A page cut with the row count as the end index.
paginatedItemsEndNotOffset(rows, page, perPage) ==
  LET startIndex == (page - 1) * perPage
  IN  slice(rows, startIndex, perPage)

\* The paginatedItems memo, for the page shown.
paginatedItemsOf(rows, page, perPage) ==
  LET startIndex == (page - 1) * perPage
  IN  slice(rows, startIndex, startIndex + perPage)

paginatedItems == paginatedItemsOf(sortedItems, actualCurrentPage, rowsPerPage)

\* totalItems of the hook: filteredItems.length
totalItems == Len(filteredItems)

\* The footer of DataTable, shown when pageCount > 0:
\* Showing {Math.min(1 + (currentPage - 1) * 10, totalItems)}-{Math.min(currentPage * 10, totalItems)} of {totalItems},
\* where currentPage is the page the hook exposes.
showingLabel ==
  [from |-> Min(1 + (actualCurrentPage - 1) * 10, totalItems),
   to |-> Min(actualCurrentPage * 10, totalItems),
   of |-> totalItems]

(***************************************************************************)
(* useDataTable: state and handlers                                        *)
(***************************************************************************)

\* useState of searchTerm, sortConfig and currentPage, for a call
\* useDataTable(items, initialSortKey, rowsPerPage).
TableInit ==
  /\ items \in Tables
  /\ searchTerm = <<>>
  /\ \E initialSortKey \in {NoKey, "score"} :
       sortConfig = [key |-> initialSortKey, direction |-> "descending"]
  /\ currentPage = 1
  /\ rowsPerPage \in {DefaultRowsPerPage, LeaderboardRowsPerPage}
  /\ compareOrder \in {"laterFirst", "earlierFirst"}

\* The caller renders again with other rows.
SetItems ==
  /\ \E rows \in Tables : rows # items /\ items' = rows
  /\ UNCHANGED <<searchTerm, sortConfig, currentPage, rowsPerPage, compareOrder>>
  /\ UNCHANGED otherThanTable

\* useEffect: if (currentPage !== actualCurrentPage) setCurrentPage(actualCurrentPage)
useEffectSyncPage ==
  /\ currentPage # actualCurrentPage
  /\ currentPage' = actualCurrentPage
  /\ UNCHANGED <<items, searchTerm, sortConfig, rowsPerPage, compareOrder>>
  /\ UNCHANGED otherThanTable

\* A sort request that always sorts ascending.
requestSortAlwaysAscending(key) ==
  /\ sortConfig' = [key |-> key, direction |-> "ascending"]
  /\ currentPage' = 1
  /\ UNCHANGED <<items, searchTerm, rowsPerPage, compareOrder>>
  /\ UNCHANGED otherThanTable

requestSort(key) ==
  /\ LET direction == IF sortConfig.key = key /\ sortConfig.direction = "ascending"
                        THEN "descending" ELSE "ascending"
     IN  sortConfig' = [key |-> key, direction |-> direction]
  /\ currentPage' = 1
  /\ UNCHANGED <<items, searchTerm, rowsPerPage, compareOrder>>
  /\ UNCHANGED otherThanTable

\* A search change that leaves the page where it is.
handleSearchChangeKeepsPage(value) ==
  /\ value # searchTerm
  /\ searchTerm' = value
  /\ UNCHANGED <<items, sortConfig, currentPage, rowsPerPage, compareOrder>>
  /\ UNCHANGED otherThanTable

handleSearchChange(value) ==
  /\ value # searchTerm
  /\ searchTerm' = value
  /\ currentPage' = 1
  /\ UNCHANGED <<items, sortConfig, rowsPerPage, compareOrder>>
  /\ UNCHANGED otherThanTable

\* setCurrentPage(prev => Math.min(prev + 1, pageCount))
nextPage ==
  /\ currentPage' = Min(currentPage + 1, pageCount)
  /\ UNCHANGED <<items, searchTerm, sortConfig, rowsPerPage, compareOrder>>
  /\ UNCHANGED otherThanTable

\* setCurrentPage(prev => Math.max(prev - 1, 1))
prevPage ==
  /\ currentPage' = Max(currentPage - 1, 1)
  /\ UNCHANGED <<items, searchTerm, sortConfig, rowsPerPage, compareOrder>>
  /\ UNCHANGED otherThanTable

\* setCurrentPage(Math.max(1, Math.min(page, pageCount)))
setPage(page) ==
  /\ currentPage' = Max(1, Min(page, pageCount))
  /\ UNCHANGED <<items, searchTerm, sortConfig, rowsPerPage, compareOrder>>
  /\ UNCHANGED otherThanTable

InitTable == TableInit /\ DashInit /\ BoardIdle /\ InsightsIdle /\ ComparisonIdle /\ TrendIdle /\ BranchIdle /\ SessionIdle /\ PanelIdle /\ ThemeIdle

NextTable ==
  \/ SetItems
  \/ useEffectSyncPage
  \/ \E key \in Range(Columns) : requestSort(key)
  \/ \E value \in SearchTerms : handleSearchChange(value)
  \/ nextPage
  \/ prevPage
  \/ \E page \in 0..(pageCount + 1) : setPage(page)

SpecTable == InitTable /\ [][NextTable]_vars

(***************************************************************************)
(* useDataTable: properties                                                *)
(***************************************************************************)

\* The rows of the table that match the search, by position in items.
MatchingRows ==
  {i \in 1..Len(items) :
     searchTerm = <<>> \/ stringIncludes(rowString(items[i]), toLowerCase(searchTerm))}

PageWithinRange(stored, shown, count) ==
  /\ stored >= 1
  /\ shown \in 1..count
  /\ (stored > count => shown = count)
  /\ (stored <= count => shown = stored)

\* pageCount and the exposed page after a step.
pageCountNext == pageCountIn(items', searchTerm', sortConfig', compareOrder', rowsPerPage')
actualCurrentPageNext == actualCurrentPageOf(currentPage', pageCountNext)

\* C4: initially and after every step, the page useDataTable exposes is within
\* 1..pageCount and the stored page is at least 1; a stored page above pageCount
\* is exposed as pageCount, and the effect then stores the exposed page without
\* changing it.
C4_PageWithinRange ==
  /\ PageWithinRange(currentPage, actualCurrentPage, pageCount)
  /\ [][/\ PageWithinRange(currentPage', actualCurrentPageNext, pageCountNext)
        /\ useEffectSyncPage =>
             /\ currentPage' = actualCurrentPage
             /\ actualCurrentPageNext = actualCurrentPage
             /\ pageCountNext = pageCount]_vars

\* Page 2 of 12 rows was stored, and the rows are now the first 5 of them at
\* 10 rows per page: page 1 of 1 is exposed.
C4_Witness ==
  /\ rowsPerPage = DefaultRowsPerPage /\ searchTerm = <<>>
  /\ items = [i \in 1..5 |-> CatalogueRow(i)]
  /\ currentPage = 2 /\ pageCount = 1 /\ actualCurrentPage = 1

\* C5: pageCount is the least number of pages of rowsPerPage rows that hold the
\* rows matching the search, and 1 when no row matches; it is never 0.
C5_PageCountIsCeiling ==
  LET n == Cardinality(MatchingRows)
  IN  /\ pageCount >= 1
      /\ n = 0 => pageCount = 1
      /\ n > 0 => (pageCount - 1) * rowsPerPage < n /\ n <= pageCount * rowsPerPage

\* Twelve rows at five rows per page: three pages, the last one partial.
C5_Witness ==
  /\ Cardinality(MatchingRows) = 12 /\ rowsPerPage = LeaderboardRowsPerPage
  /\ pageCount = 3

RECURSIVE PagesUpTo(_)
PagesUpTo(p) ==
  IF p = 0 THEN <<>>
  ELSE PagesUpTo(p - 1) \o paginatedItemsOf(sortedItems, p, rowsPerPage)

\* C6: paginatedItems holds the rows of sortedItems from index
\* (currentPage - 1) * rowsPerPage on, rowsPerPage of them or those that are
\* left, and the pages 1..pageCount in order make up sortedItems exactly.
C6_PagesPartitionSortedItems ==
  LET startIndex == (actualCurrentPage - 1) * rowsPerPage
  IN  /\ Len(paginatedItems) <= rowsPerPage
      /\ Len(paginatedItems) = Max(0, Min(rowsPerPage, Len(sortedItems) - startIndex))
      /\ \A i \in 1..Len(paginatedItems) : paginatedItems[i] = sortedItems[startIndex + i]
      /\ PagesUpTo(pageCount) = sortedItems

\* The third page of twelve rows at five rows per page holds two rows.
C6_Witness ==
  /\ rowsPerPage = LeaderboardRowsPerPage /\ Len(sortedItems) = 12
  /\ actualCurrentPage = 3 /\ Len(paginatedItems) = 2

Opposite(direction) == IF direction = "ascending" THEN "descending" ELSE "ascending"

\* C7: the initial direction is descending; requestSort(key) on the current
\* sort key keeps the key and flips the direction, on another key stores that
\* key with direction ascending, and in both cases the page becomes 1.
C7_RequestSortToggles ==
  /\ sortConfig.direction = "descending"
  /\ [][\A key \in Range(Columns) :
          requestSort(key) =>
            /\ sortConfig'.key = key
            /\ sortConfig'.direction =
                 (IF sortConfig.key = key THEN Opposite(sortConfig.direction)
                  ELSE "ascending")
            /\ currentPage' = 1
            /\ actualCurrentPageNext = 1]_vars

\* The name column, never the initial sort key, was requested twice: it sorts
\* descending, and of several pages the first is shown.
C7_Witness ==
  /\ sortConfig = [key |-> "name", direction |-> "descending"]
  /\ currentPage = 1 /\ pageCount > 1

\* String(value): null gives "null".
Stringified(cell) ==
  CASE cell.type = "null" -> <<"n", "u", "l", "l">>
    [] cell.type = "number" -> NumberToString(cell.v[1])
    [] OTHER -> cell.v

\* A field value as a string, with null as the empty string.
StringOrEmpty(cell) == IF cell.type = "null" THEN <<>> ELSE Stringified(cell)

\* The field values of a row, stringified and concatenated.
Concatenated(row) == Stringified(row.name) \o Stringified(row.score)

\* The field values of a row joined with one space between consecutive values.
JoinedBySpaces(row) == StringOrEmpty(row.name) \o <<" ">> \o StringOrEmpty(row.score)

\* term occurs in str, letter case ignored.
ContainsIgnoringCase(str, term) ==
  \E i \in 0..(Len(str) - Len(term)) :
    \A k \in 1..Len(term) : Lower[str[i + k]] = Lower[term[k]]

SearchResetsPage ==
  \A value \in SearchTerms :
    handleSearchChange(value) =>
      searchTerm' = value /\ currentPage' = 1 /\ actualCurrentPageNext = 1

\* C8 as stated: the search keeps exactly the rows whose field values,
\* stringified and concatenated, contain the term, letter case ignored, and a
\* change of the term makes the page 1.
C8_SearchOverConcatenation ==
  /\ [][SearchResetsPage]_vars
  /\ [][filteredItemsOf(items', searchTerm') =
          SelectSeq(items', LAMBDA row : ContainsIgnoringCase(Concatenated(row), searchTerm'))]_vars

\* C8, amended: the search keeps exactly the rows, in order, whose field values,
\* each as a string with null as the empty string and joined with one space
\* between consecutive values, contain the term, letter case ignored (the empty
\* term keeps every row), and a change of the term makes the page 1.
C8_SearchOverJoinedValues ==
  /\ filteredItems = items
  /\ [][SearchResetsPage]_vars
  /\ [][filteredItemsOf(items', searchTerm') =
          SelectSeq(items', LAMBDA row : ContainsIgnoringCase(JoinedBySpaces(row), searchTerm'))]_vars

\* The term "n 2" keeps a row whose name ends in n and whose score is 2, drops
\* another row, and the first page is shown.
C8_Witness ==
  /\ searchTerm = <<"n", " ", "2">>
  /\ Len(filteredItems) = 1 /\ Len(items) = 2 /\ currentPage = 1

\* Position of a row in filteredItems.
PositionOf(row) == CHOOSE i \in 1..Len(filteredItems) : filteredItems[i] = row

MaxData == 4

\* Names every object literal inherits from Object.prototype.
InheritedKeys == {"constructor"}

\* Property names that are array indices, with their values: Object.entries
\* lists them first, in ascending numeric order.
IndexKeys == {"7", "10"}
IndexValue(key) == IF key = "7" THEN 7 ELSE 10

\* The records the data prop is made of, without the id: TrainingRecord without
\* districtHead, which no section reads from its data prop.
TraineePool ==
  { [traineeName |-> "A", email |-> "a@x.com", branch |-> "b1", supervisor |-> "s1",
     courseTitle |-> "c1", completionRate |-> 20, preAssessmentScore |-> 40,
     postAssessmentScore |-> 80, averageQuizScore |-> 70, courseType |-> "Mandatory",
     trainingHours |-> 2,
     completionDate |-> [year |-> 2024, month |-> 1, day |-> 9]],
    [traineeName |-> "A", email |-> "a@x.com", branch |-> "b1", supervisor |-> "s1",
     courseTitle |-> "c2", completionRate |-> 90, preAssessmentScore |-> 80,
     postAssessmentScore |-> 90, averageQuizScore |-> 80, courseType |-> "Optional",
     trainingHours |-> 1,
     completionDate |-> [year |-> 2024, month |-> 2, day |-> 1]],
    [traineeName |-> "A2", email |-> "a@x.com", branch |-> "", supervisor |-> "s2",
     courseTitle |-> "c1", completionRate |-> 100, preAssessmentScore |-> 0,
     postAssessmentScore |-> 81, averageQuizScore |-> 60, courseType |-> "Mandatory",
     trainingHours |-> 1,
     completionDate |-> [year |-> 2024, month |-> 1, day |-> 20]],
    [traineeName |-> "A", email |-> "a@x.com", branch |-> "10", supervisor |-> "",
     courseTitle |-> "c2", completionRate |-> 50, preAssessmentScore |-> 40,
     postAssessmentScore |-> -5, averageQuizScore |-> 0, courseType |-> "Optional",
     trainingHours |-> 0,
     completionDate |-> [year |-> 2023, month |-> 12, day |-> 5]],
    [traineeName |-> "B", email |-> "b@x.com", branch |-> "7", supervisor |-> "s2",
     courseTitle |-> "c3", completionRate |-> 50, preAssessmentScore |-> 90,
     postAssessmentScore |-> 85, averageQuizScore |-> 90, courseType |-> "Mandatory",
     trainingHours |-> 2,
     completionDate |-> [year |-> 2024, month |-> 3, day |-> 30]],
    [traineeName |-> "B", email |-> "b@x.com", branch |-> "b2", supervisor |-> "s1",
     courseTitle |-> "c3", completionRate |-> 50, preAssessmentScore |-> 40,
     postAssessmentScore |-> 0, averageQuizScore |-> 50, courseType |-> "Optional",
     trainingHours |-> 1,
     completionDate |-> [year |-> 2024, month |-> 3, day |-> 2]],
    [traineeName |-> "C", email |-> "", branch |-> "b2", supervisor |-> "",
     courseTitle |-> "c3", completionRate |-> 70, preAssessmentScore |-> 80,
     postAssessmentScore |-> 95, averageQuizScore |-> 70, courseType |-> "Mandatory",
     trainingHours |-> 3,
     completionDate |-> [year |-> 2024, month |-> 4, day |-> 2]],
    [traineeName |-> "D", email |-> "10", branch |-> "10", supervisor |-> "s2",
     courseTitle |-> "c1", completionRate |-> 50, preAssessmentScore |-> 80,
     postAssessmentScore |-> 85, averageQuizScore |-> 80, courseType |-> "Optional",
     trainingHours |-> 1,
     completionDate |-> [year |-> 2023, month |-> 12, day |-> 5]],
    [traineeName |-> "E", email |-> "7", branch |-> "7", supervisor |-> "s1",
     courseTitle |-> "c2", completionRate |-> 50, preAssessmentScore |-> 80,
     postAssessmentScore |-> 85, averageQuizScore |-> 80, courseType |-> "Mandatory",
     trainingHours |-> 2,
     completionDate |-> [year |-> 2024, month |-> 2, day |-> 1]],
    [traineeName |-> "F", email |-> "constructor", branch |-> "b1", supervisor |-> "s2",
     courseTitle |-> "constructor", completionRate |-> 40, preAssessmentScore |-> 40,
     postAssessmentScore |-> 70, averageQuizScore |-> 60, courseType |-> "Optional",
     trainingHours |-> 1,
     completionDate |-> [year |-> 2024, month |-> 4, day |-> 2]],
    [traineeName |-> "B", email |-> "b@x.com", branch |-> "b2", supervisor |-> "s1",
     courseTitle |-> "c1", completionRate |-> 60, preAssessmentScore |-> 40,
     postAssessmentScore |-> 80, averageQuizScore |-> 70, courseType |-> "Mandatory",
     trainingHours |-> 1,
     completionDate |-> [year |-> 2024, month |-> 1, day |-> 9]] }

\* The record with its id.
withId(r, id) == [id |-> id] @@ r

\* The rows of a sheet, before the ids are given.
DataLists == UNION {[1..n -> TraineePool] : n \in 0..MaxData}

\* The records of the rows: the ids are the positions, as in allData.
withIds(rows) == [i \in 1..Len(rows) |-> withId(rows[i], i)]

\* traineeScores after the first n records of d: its own properties in
\* insertion order.  traineeScores[email] of an inherited name is the inherited
\* object, which is truthy: no own property is made, and the sums go to that
\* object.
RECURSIVE traineeScoresOf(_, _)
traineeScoresOf(d, n) ==
  IF n = 0 THEN <<>>
  ELSE LET scores == traineeScoresOf(d, n - 1)
           r == d[n]
       IN  IF r.postAssessmentScore > 0 /\ r.email # ""
           THEN IF r.email \in InheritedKeys
                THEN scores
                ELSE IF \E i \in 1..Len(scores) : scores[i].email = r.email
                THEN [i \in 1..Len(scores) |->
                       IF scores[i].email = r.email
                       THEN [scores[i] EXCEPT !.totalScore = @ + r.postAssessmentScore,
                                              !.count = @ + 1]
                       ELSE scores[i]]
                ELSE Append(scores, [email |-> r.email, name |-> r.traineeName,
                                     totalScore |-> r.postAssessmentScore, count |-> 1])
           ELSE scores

\* Object.entries: array-index names in ascending numeric order, then the
\* other names in insertion order.
RECURSIVE indexEntries(_, _)
indexEntries(scores, above) ==
  LET left == {i \in 1..Len(scores) :
                 scores[i].email \in IndexKeys /\ IndexValue(scores[i].email) > above}
  IN  IF left = {} THEN <<>>
      ELSE LET i == CHOOSE j \in left :
                      \A k \in left : IndexValue(scores[j].email) <= IndexValue(scores[k].email)
           IN  <<scores[i]>> \o indexEntries(scores, IndexValue(scores[i].email))

entries(scores) ==
  indexEntries(scores, -1) \o SelectSeq(scores, LAMBDA e : e.email \notin IndexKeys)

\* parseFloat((totalScore / count).toFixed(1)), in tenths: the nearest tenth,
\* the larger one when two are equally near.
toFixed1(totalScore, count) == (20 * totalScore + count) \div (2 * count)

\* A row before ranking; avgScore is in tenths (850 is 85.0).
traineeRow(entry) ==
  [email |-> entry.email, name |-> entry.name,
   avgScore |-> toFixed1(entry.totalScore, entry.count),
   courseCount |-> entry.count]

\* .sort((a, b) => b.avgScore - a.avgScore): stable, highest average first.
RECURSIVE sortByAvgScore(_, _)
sortByAvgScore(rows, n) ==
  IF n = 0 THEN <<>>
  ELSE LET sorted == sortByAvgScore(rows, n - 1)
           x == rows[n]
           ahead == SelectSeq(sorted, LAMBDA e : e.avgScore >= x.avgScore)
           behind == SelectSeq(sorted, LAMBDA e : e.avgScore < x.avgScore)
       IN  ahead \o <<x>> \o behind

topTraineesOf(d) ==
  LET listed == entries(traineeScoresOf(d, Len(d)))
      rows == [i \in 1..Len(listed) |-> traineeRow(listed[i])]
      sorted == sortByAvgScore(rows, Len(rows))
  IN  [i \in 1..Len(sorted) |->
         [email |-> sorted[i].email, name |-> sorted[i].name,
          avgScore |-> sorted[i].avgScore, courseCount |-> sorted[i].courseCount,
          rank |-> i]]

\* Object.keys order of the own property names in names, given in insertion
\* order: the positions of the array-index names by ascending value, then the
\* positions of the other names in insertion order.
RECURSIVE indexPositions(_, _)
indexPositions(names, above) ==
  LET left == {i \in 1..Len(names) : names[i] \in IndexKeys /\ IndexValue(names[i]) > above}
  IN  IF left = {} THEN <<>>
      ELSE LET i == CHOOSE j \in left :
                      \A k \in left : IndexValue(names[j]) <= IndexValue(names[k])
           IN  <<i>> \o indexPositions(names, IndexValue(names[i]))

ownKeyPositions(names) ==
  indexPositions(names, -1)
    \o SelectSeq([i \in 1..Len(names) |-> i], LAMBDA i : names[i] \notin IndexKeys)

\* Object.entries of a map kept as its own properties in insertion order, each
\* with its name in the field key.
objectEntries(stats) ==
  LET order == ownKeyPositions([i \in 1..Len(stats) |-> stats[i].key])
  IN  [i \in 1..Len(order) |-> stats[order[i]]]

\* .sort((a, b) => b[field] - a[field]): stable, highest value first.
RECURSIVE sortDescending(_, _, _)
sortDescending(rows, n, field) ==
  IF n = 0 THEN <<>>
  ELSE LET sorted == sortDescending(rows, n - 1, field)
           x == rows[n]
           ahead == SelectSeq(sorted, LAMBDA e : e[field] >= x[field])
           behind == SelectSeq(sorted, LAMBDA e : e[field] < x[field])
       IN  ahead \o <<x>> \o behind

\* .map((row, index) => ({ ...row, rank: index + 1 }))
withRanks(rows) == [i \in 1..Len(rows) |-> [rank |-> i] @@ rows[i]]

\* A name inherited from Object.prototype is met as a key of a map whose
\* entries hold a Set: the inherited object has no such Set, and the call of
\* its add throws a TypeError.
throwsOn(d, field) == \E i \in 1..Len(d) : d[i][field] \in InheritedKeys

\* branchRates or supervisorRates after the first n records of d, grouped by
\* field; skipEmpty is the test of the name that topSupervisors makes and
\* topBranches does not.  Defined when nothing is thrown.
RECURSIVE ratesOf(_, _, _, _)
ratesOf(d, n, field, skipEmpty) ==
  IF n = 0 THEN <<>>
  ELSE LET rates == ratesOf(d, n - 1, field, skipEmpty)
           r == d[n]
       IN  IF skipEmpty /\ r[field] = ""
           THEN rates
           ELSE IF \E i \in 1..Len(rates) : rates[i].key = r[field]
           THEN [i \in 1..Len(rates) |->
                  IF rates[i].key = r[field]
                  THEN [rates[i] EXCEPT !.totalRate = @ + r.completionRate,
                                        !.count = @ + 1,
                                        !.trainees = @ \cup {r.traineeName}]
                  ELSE rates[i]]
           ELSE Append(rates, [key |-> r[field], totalRate |-> r.completionRate,
                               count |-> 1, trainees |-> {r.traineeName}])

\* A row of Top Branches or Top Supervisors before ranking; avgRate is in
\* tenths.
rateRow(entry) ==
  [name |-> entry.key, avgRate |-> toFixed1(entry.totalRate, entry.count),
   traineeCount |-> Cardinality(entry.trainees)]

rateBoard(d, field, skipEmpty) ==
  LET listed == objectEntries(ratesOf(d, Len(d), field, skipEmpty))
      rows == [i \in 1..Len(listed) |-> rateRow(listed[i])]
  IN  withRanks(sortDescending(rows, Len(rows), "avgRate"))

topBranchesOf(d) == rateBoard(d, "branch", FALSE)

topSupervisorsOf(d) == rateBoard(d, "supervisor", TRUE)

\* The copy of topBranches that returns at an empty branch.
topBranchesWithGuardOf(d) == rateBoard(d, "branch", TRUE)

topBranches == topBranchesOf(data)
topSupervisors == topSupervisorsOf(data)

(***************************************************************************)
(* ActionableInsights: topImprovers                                        *)
(***************************************************************************)

RECURSIVE gcd(_, _)
gcd(a, b) == IF b = 0 THEN a ELSE gcd(b, a % b)

\* A number that is not an integer, as the fraction num / den in lowest terms,
\* den > 0.  The scores of TraineePool make every improvement that is summed
\* a binary fraction, which the floating-point operations give exactly.
Fraction(num, den) ==
  LET g == gcd(IF num < 0 THEN -num ELSE num, den)
  IN  [num |-> num \div g, den |-> den \div g]

plus(x, y) == Fraction(x.num * y.den + y.num * x.den, x.den * y.den)

\* ((post - pre) / pre) * 100
improvementOf(r) ==
  Fraction((r.postAssessmentScore - r.preAssessmentScore) * 100, r.preAssessmentScore)

\* improverStats after the first n records of d: its own properties in
\* insertion order.  An inherited name gets no own property, as in
\* traineeScores.
RECURSIVE improverStatsOf(_, _)
improverStatsOf(d, n) ==
  IF n = 0 THEN <<>>
  ELSE LET stats == improverStatsOf(d, n - 1)
           r == d[n]
           made == IF \E i \in 1..Len(stats) : stats[i].key = r.email
                   THEN stats
                   ELSE Append(stats, [key |-> r.email, name |-> r.traineeName,
                                       totalImprovement |-> Fraction(0, 1),
                                       courseCount |-> 0])
       IN  IF r.preAssessmentScore > 0 /\ r.postAssessmentScore > 0 /\ r.email # ""
           THEN IF r.email \in InheritedKeys
                THEN stats
                ELSE IF improvementOf(r).num > 0
                THEN [i \in 1..Len(made) |->
                       IF made[i].key = r.email
                       THEN [made[i] EXCEPT
                               !.totalImprovement = plus(@, improvementOf(r)),
                               !.courseCount = @ + 1]
                       ELSE made[i]]
                ELSE made
           ELSE stats

\* A row of Top Improvers before ranking; avgImprovement is in tenths.
improverRow(entry) ==
  [email |-> entry.key, name |-> entry.name,
   avgImprovement |-> toFixed1(entry.totalImprovement.num,
                               entry.totalImprovement.den * entry.courseCount)]

topImproversOf(d) ==
  LET listed == SelectSeq(objectEntries(improverStatsOf(d, Len(d))),
                          LAMBDA e : e.courseCount > 0)
      rows == [i \in 1..Len(listed) |-> improverRow(listed[i])]
  IN  withRanks(sortDescending(rows, Len(rows), "avgImprovement"))

topImprovers == topImproversOf(data)

(***************************************************************************)
(* Leaderboard: rendering                                                  *)
(***************************************************************************)

\* The leaderboard is rendered with some record list.
BoardInit ==
  /\ \E rows \in DataLists : data = withIds(rows)
  /\ topTrainees = topTraineesOf(data)

\* The data prop gains a record at its end, with the next id.
RecordAdded ==
  LET id == IF data = <<>> THEN 1 ELSE data[Len(data)].id + 1
  IN  /\ id <= MaxData
      /\ \E r \in TraineePool :
           /\ data' = Append(data, withId(r, id))
           /\ topTrainees' = topTraineesOf(data')
      /\ UNCHANGED otherThanBoard

\* The data prop loses a record.
RecordRemoved ==
  /\ \E i \in 1..Len(data) :
       /\ data' = SubSeq(data, 1, i - 1) \o SubSeq(data, i + 1, Len(data))
       /\ topTrainees' = topTraineesOf(data')
  /\ UNCHANGED otherThanBoard

InitLeaderboard == BoardInit /\ DashInit /\ TableIdle /\ InsightsIdle /\ ComparisonIdle /\ TrendIdle /\ BranchIdle /\ SessionIdle /\ PanelIdle /\ ThemeIdle

NextLeaderboard == RecordAdded \/ RecordRemoved

SpecLeaderboard == InitLeaderboard /\ [][NextLeaderboard]_vars

(***************************************************************************)
(* ActionableInsights: thresholds and atRiskTrainees                       *)
(***************************************************************************)

\* Longest record list handed to ActionableInsights.
MaxInsightData == 2

InsightLists == UNION {[1..n -> TraineePool] : n \in 0..MaxInsightData}

ThresholdNames ==
  {"AT_RISK_COMPLETION", "AT_RISK_SCORE",
   "COURSE_ATTENTION_COMPLETION", "COURSE_ATTENTION_SCORE"}

\* What a threshold input can hold.
ThresholdInputs == {"", "85"}

\* parseInt(value, 10): NaN is Null.
parseInt(value) == IF value = "" THEN Null ELSE Some(85)

\* parseInt(value, 10) || 0
parseIntOrZero(value) ==
  IF parseInt(value) = Null \/ parseInt(value) = Some(0) THEN 0 ELSE parseInt(value)[1]

\* Reasons that leave out the score.
reasonsOfCompletionOnly(record, t) ==
  IF record.completionRate < t.AT_RISK_COMPLETION
  THEN << <<"Completion < ", t.AT_RISK_COMPLETION, "%">> >>
  ELSE <<>>

\* The reasons of one record, before the course is named.  A string built from
\* a template is the sequence of its parts.
reasonsOf(record, t) ==
  (IF record.completionRate < t.AT_RISK_COMPLETION
   THEN << <<"Completion < ", t.AT_RISK_COMPLETION, "%">> >>
   ELSE <<>>)
    \o (IF record.postAssessmentScore > 0 /\ record.postAssessmentScore < t.AT_RISK_SCORE
        THEN << <<"Score < ", t.AT_RISK_SCORE, "%">> >>
        ELSE <<>>)

\* `${r} on '${record.courseTitle}'`
onCourse(reason, record) == reason \o <<" on '", record.courseTitle, "'">>

\* riskMap after the first n records of d, in insertion order.
RECURSIVE riskMapOf(_, _, _)
riskMapOf(d, n, t) ==
  IF n = 0 THEN <<>>
  ELSE LET riskMap == riskMapOf(d, n - 1, t)
           record == d[n]
           reasons == reasonsOf(record, t)
           named == [i \in 1..Len(reasons) |-> onCourse(reasons[i], record)]
           set == IF \E i \in 1..Len(riskMap) : riskMap[i].key = record.traineeName
                  THEN riskMap
                  ELSE Append(riskMap, [key |-> record.traineeName, trainee |-> record,
                                        reasons |-> <<>>])
       IN  IF Len(reasons) > 0
           THEN [i \in 1..Len(set) |->
                  IF set[i].key = record.traineeName
                  THEN [set[i] EXCEPT !.reasons = @ \o named]
                  ELSE set[i]]
           ELSE riskMap

\* Array.from(riskMap.values())
atRiskTraineesOf(d, t) ==
  LET riskMap == riskMapOf(d, Len(d), t)
  IN  [i \in 1..Len(riskMap) |->
         [trainee |-> riskMap[i].trainee, reasons |-> riskMap[i].reasons]]

atRiskTrainees == atRiskTraineesOf(data, thresholds)

(***************************************************************************)
(* ActionableInsights: coursesNeedingAttention and topPerformingCourses    *)
(***************************************************************************)

\* courseStats after the first n records of d: its own properties in insertion
\* order.  A course title that is an inherited name gets no own property.
RECURSIVE courseStatsOf(_, _)
courseStatsOf(d, n) ==
  IF n = 0 THEN <<>>
  ELSE LET courseStats == courseStatsOf(d, n - 1)
           record == d[n]
           made == IF \E i \in 1..Len(courseStats) : courseStats[i].key = record.courseTitle
                   THEN courseStats
                   ELSE Append(courseStats,
                               [key |-> record.courseTitle, totalCompletion |-> 0,
                                totalScore |-> 0, scoreCount |-> 0, recordCount |-> 0,
                                learners |-> {}])
           scored == record.postAssessmentScore > 0
       IN  IF record.courseTitle \in InheritedKeys
           THEN courseStats
           ELSE [i \in 1..Len(made) |->
                  IF made[i].key = record.courseTitle
                  THEN [made[i] EXCEPT
                          !.totalCompletion = @ + record.completionRate,
                          !.recordCount = @ + 1,
                          !.learners = @ \cup {record.traineeName},
                          !.totalScore = IF scored THEN @ + record.postAssessmentScore ELSE @,
                          !.scoreCount = IF scored THEN @ + 1 ELSE @]
                  ELSE made[i]]

\* A course of coursesNeedingAttention before the filter; the averages are in
\* tenths.
attentionRow(stats) ==
  [title |-> stats.key,
   avgCompletion |-> toFixed1(stats.totalCompletion, stats.recordCount),
   avgScore |-> IF stats.scoreCount > 0
                THEN toFixed1(stats.totalScore, stats.scoreCount)
                ELSE 0,
   learnerCount |-> Cardinality(stats.learners)]

\* The rows of coursesNeedingAttention before the filter.
courseRowsOf(d) ==
  LET listed == objectEntries(courseStatsOf(d, Len(d)))
  IN  [i \in 1..Len(listed) |-> attentionRow(listed[i])]

\* The filter of coursesNeedingAttention; the thresholds are whole numbers, the
\* averages tenths.
needsAttention(course, t) ==
  \/ course.avgCompletion < 10 * t.COURSE_ATTENTION_COMPLETION
  \/ course.avgScore > 0 /\ course.avgScore < 10 * t.COURSE_ATTENTION_SCORE

\* coursesNeedingAttention, when nothing is thrown: stats.learners.add throws a
\* TypeError at a course title that is an inherited name.
coursesNeedingAttentionOf(d, t) ==
  SelectSeq(courseRowsOf(d), LAMBDA course : needsAttention(course, t))

coursesNeedingAttentionThrows == throwsOn(data, "courseTitle")
coursesNeedingAttention == coursesNeedingAttentionOf(data, thresholds)

\* The courses the panel lists: none when the aggregation throws.
listedCourses == IF coursesNeedingAttentionThrows THEN <<>> ELSE coursesNeedingAttention

\* x / y of two fractions, y not 0.
over(x, y) ==
  IF y.num < 0 THEN Fraction(-(x.num * y.den), x.den * (-y.num))
  ELSE Fraction(x.num * y.den, x.den * y.num)

times(x, y) == Fraction(x.num * y.num, x.den * y.den)

Whole(n) == Fraction(n, 1)

LessThanFraction(x, y) == x.num * y.den < y.num * x.den

\* A row of topPerformingCourses before the sort.
performingRow(stats) ==
  LET avgCompletion == IF stats.recordCount > 0
                       THEN Fraction(stats.totalCompletion, stats.recordCount)
                       ELSE Whole(0)
      avgScore == IF stats.scoreCount > 0
                  THEN Fraction(stats.totalScore, stats.scoreCount)
                  ELSE Whole(0)
  IN  [title |-> stats.key, avgCompletion |-> avgCompletion, avgScore |-> avgScore,
       performanceScore |-> plus(times(avgCompletion, Fraction(6, 10)),
                                 times(avgScore, Fraction(4, 10))),
       recordCount |-> stats.recordCount]

\* .sort((a, b) => b.performanceScore - a.performanceScore)
RECURSIVE sortByPerformance(_, _)
sortByPerformance(rows, n) ==
  IF n = 0 THEN <<>>
  ELSE LET sorted == sortByPerformance(rows, n - 1)
           x == rows[n]
           ahead == SelectSeq(sorted, LAMBDA e :
                      ~LessThanFraction(e.performanceScore, x.performanceScore))
           behind == SelectSeq(sorted, LAMBDA e :
                       LessThanFraction(e.performanceScore, x.performanceScore))
       IN  ahead \o <<x>> \o behind

topPerformingCoursesOf(d) ==
  LET listed == objectEntries(courseStatsOf(d, Len(d)))
      rows == [i \in 1..Len(listed) |-> performingRow(listed[i])]
      sorted == sortByPerformance(rows, Len(rows))
  IN  withRanks(SubSeq(sorted, 1, Min(5, Len(sorted))))

topPerformingCourses == topPerformingCoursesOf(data)

(***************************************************************************)
(* ComparisonTool: calculateKpis; EngagementPerformance: scatterData       *)
(***************************************************************************)

\* reduce((acc, curr) => acc + curr[field], 0)
RECURSIVE sumOf(_, _, _)
sumOf(d, n, field) == IF n = 0 THEN 0 ELSE sumOf(d, n - 1, field) + d[n][field]

\* KPIs whose scores are summed over every record, assessed or not.
calculateKpisOverAllRecords(d) ==
  IF Len(d) = 0
  THEN [totalLearners |-> 0, avgCompletion |-> Whole(0), avgPostScore |-> Whole(0),
        improvement |-> Whole(0), totalHours |-> 0, recordCount |-> 0]
  ELSE LET preScores == sumOf(d, Len(d), "preAssessmentScore")
           postScores == sumOf(d, Len(d), "postAssessmentScore")
       IN  [totalLearners |-> Cardinality({d[i].traineeName : i \in 1..Len(d)}),
            avgCompletion |-> Fraction(sumOf(d, Len(d), "completionRate"), Len(d)),
            avgPostScore |-> Fraction(postScores, Len(d)),
            improvement |-> IF preScores > 0
                            THEN times(Fraction(postScores - preScores, preScores), Whole(100))
                            ELSE Whole(0),
            totalHours |-> sumOf(d, Len(d), "trainingHours"),
            recordCount |-> Len(d)]

calculateKpis(d) ==
  IF Len(d) = 0
  THEN [totalLearners |-> 0, avgCompletion |-> Whole(0), avgPostScore |-> Whole(0),
        improvement |-> Whole(0), totalHours |-> 0, recordCount |-> 0]
  ELSE LET completedTrainings == SelectSeq(d, LAMBDA r : r.postAssessmentScore > 0)
           n == Len(completedTrainings)
           preScores == sumOf(completedTrainings, n, "preAssessmentScore")
           postScores == sumOf(completedTrainings, n, "postAssessmentScore")
       IN  [totalLearners |-> Cardinality({d[i].traineeName : i \in 1..Len(d)}),
            avgCompletion |-> Fraction(sumOf(d, Len(d), "completionRate"), Len(d)),
            avgPostScore |-> IF n > 0 THEN Fraction(postScores, n) ELSE Whole(0),
            improvement |-> IF preScores > 0
                            THEN times(Fraction(postScores - preScores, preScores), Whole(100))
                            ELSE Whole(0),
            totalHours |-> sumOf(d, Len(d), "trainingHours"),
            recordCount |-> Len(d)]

\* [...new Set(d.map(item => item[field]))]: the values in order of first
\* appearance.
RECURSIVE uniqueOf(_, _, _)
uniqueOf(d, n, field) ==
  IF n = 0 THEN <<>>
  ELSE LET seen == uniqueOf(d, n - 1, field)
       IN  IF \E i \in 1..Len(seen) : seen[i] = d[n][field]
           THEN seen
           ELSE Append(seen, d[n][field])

\* processedData: a point per learner.  The filter of NaN drops nothing, as a
\* learner has a record.
processedDataOf(d) ==
  LET learners == uniqueOf(d, Len(d), "traineeName")
  IN  [i \in 1..Len(learners) |->
         LET learnerRecords == SelectSeq(d, LAMBDA item : item.traineeName = learners[i])
             n == Len(learnerRecords)
         IN  [name |-> learners[i],
              x |-> sumOf(learnerRecords, n, "trainingHours"),
              y |-> Fraction(sumOf(learnerRecords, n, "postAssessmentScore"), n),
              z |-> n * 50]]

RECURSIVE sumOfFractions(_, _, _)
sumOfFractions(rows, n, field) ==
  IF n = 0 THEN Whole(0) ELSE plus(sumOfFractions(rows, n - 1, field), rows[n][field])

\* A scatter without the test of an empty processedData: 0 / 0 is NaN, the
\* fraction of denominator 0.
scatterOfWithoutEmptyTest(d) ==
  LET processedData == processedDataOf(d)
      n == Len(processedData)
  IN  [scatterData |-> processedData,
       avgEngagement |-> IF n = 0 THEN [num |-> 0, den |-> 0]
                         ELSE Fraction(sumOf(processedData, n, "x"), n),
       avgPerformance |-> IF n = 0 THEN [num |-> 0, den |-> 0]
                          ELSE over(sumOfFractions(processedData, n, "y"), Whole(n))]

scatterOf(d) ==
  LET processedData == processedDataOf(d)
      n == Len(processedData)
  IN  IF n = 0
      THEN [scatterData |-> <<>>, avgEngagement |-> Whole(0), avgPerformance |-> Whole(0)]
      ELSE [scatterData |-> processedData,
            avgEngagement |-> Fraction(sumOf(processedData, n, "x"), n),
            avgPerformance |-> over(sumOfFractions(processedData, n, "y"), Whole(n))]

\* ActionableInsights is rendered with some record list and the default
\* thresholds.
InsightsInit ==
  /\ \E rows \in InsightLists : data = withIds(rows)
  /\ topTrainees = topTraineesOf(data)
  /\ thresholds = DEFAULT_THRESHOLDS

handleThresholdChange(name, value) ==
  /\ thresholds' = [thresholds EXCEPT ![name] = parseIntOrZero(value)]
  /\ UNCHANGED otherThanInsights

InitInsights == InsightsInit /\ DashInit /\ TableIdle /\ ComparisonIdle /\ TrendIdle /\ BranchIdle /\ SessionIdle /\ PanelIdle /\ ThemeIdle

NextInsights ==
  \E name \in ThresholdNames, value \in ThresholdInputs : handleThresholdChange(name, value)

SpecInsights == InitInsights /\ [][NextInsights]_vars

(***************************************************************************)
(* ComparisonTool                                                          *)
(***************************************************************************)

ComparisonCategories == {"branch", "districtHead", "supervisor"}

\* Options that leave out the empty value.
filterOptionsWithoutEmpty(records, category) ==
  SelectSeq(uniqueOf(records, Len(records), category), LAMBDA opt : opt # "")

\* filterOptions of Dashboard: the values of a category in allData, in order of
\* first appearance.
filterOptionsOf(records, category) == uniqueOf(records, Len(records), category)

\* getOptionsForCategory: none without a category, else the options without
\* 'all'.
getOptionsForCategory(records, category) ==
  IF category = "" THEN <<>>
  ELSE SelectSeq(filterOptionsOf(records, category), LAMBDA opt : opt # "all")

\* filterData(group)
filterData(records, group) ==
  IF group.category = "" \/ group.value = "" THEN <<>>
  ELSE SelectSeq(records, LAMBDA item : item[group.category] = group.value)

groupAData == filterData(allData, groupA)
groupBData == filterData(allData, groupB)
kpisA == calculateKpis(groupAData)
kpisB == calculateKpis(groupBData)

\* handleCategoryChange(setGroupA, e) and handleCategoryChange(setGroupB, e):
\* the category select offers no category and the three categories.
handleCategoryChange ==
  \E category \in ComparisonCategories \cup {""} :
    /\ \/ groupA' = [category |-> category, value |-> ""] /\ groupB' = groupB
       \/ groupB' = [category |-> category, value |-> ""] /\ groupA' = groupA
    /\ UNCHANGED otherThanComparison

\* handleValueChange(setGroupA, e) and handleValueChange(setGroupB, e): the
\* value select is disabled without a category, and offers no value and the
\* options of the category.
handleValueChange ==
  /\ \/ /\ groupA.category # ""
        /\ \E value \in Range(getOptionsForCategory(allData, groupA.category)) \cup {""} :
             groupA' = [groupA EXCEPT !.value = value]
        /\ groupB' = groupB
     \/ /\ groupB.category # ""
        /\ \E value \in Range(getOptionsForCategory(allData, groupB.category)) \cup {""} :
             groupB' = [groupB EXCEPT !.value = value]
        /\ groupA' = groupA
  /\ UNCHANGED otherThanComparison

InitComparison == DashInit /\ TableIdle /\ BoardIdle /\ InsightsIdle /\ ComparisonIdle /\ TrendIdle /\ BranchIdle /\ SessionIdle /\ PanelIdle /\ ThemeIdle

NextComparison == SetAllData \/ handleCategoryChange \/ handleValueChange

SpecComparison == InitComparison /\ [][NextComparison]_vars

(***************************************************************************)
(* TrendAnalysis                                                           *)
(***************************************************************************)

\* Longest record list handed to TrendAnalysis.
MaxTrendData == 5

\* The months of the completion dates, with the label
\* toLocaleDateString('en-US', { year: 'numeric', month: 'short' }) gives them.
Months ==
  { [year |-> 2023, month |-> 12, label |-> "Dec 2023"],
    [year |-> 2024, month |-> 1, label |-> "Jan 2024"],
    [year |-> 2024, month |-> 2, label |-> "Feb 2024"],
    [year |-> 2024, month |-> 3, label |-> "Mar 2024"],
    [year |-> 2024, month |-> 4, label |-> "Apr 2024"] }

\* item.completionDate.toLocaleDateString('en-US', { year: 'numeric', month: 'short' })
toLocaleDateString(date) ==
  (CHOOSE m \in Months : m.year = date.year /\ m.month = date.month).label

\* new Date(month).getTime(): the time of the first day of the month the label
\* names, counted in months.
getTime(label) ==
  LET m == CHOOSE x \in Months : x.label = label
  IN  12 * m.year + m.month

\* The fields of the records that TrendAnalysis reads.
TrendPool ==
  { [completionDate |-> [year |-> 2023, month |-> 12, day |-> 5],
     completionRate |-> 50, trainingHours |-> 1],
    [completionDate |-> [year |-> 2024, month |-> 1, day |-> 9],
     completionRate |-> 60, trainingHours |-> 2],
    [completionDate |-> [year |-> 2024, month |-> 2, day |-> 1],
     completionRate |-> 70, trainingHours |-> 1],
    [completionDate |-> [year |-> 2024, month |-> 3, day |-> 30],
     completionRate |-> 80, trainingHours |-> 3],
    [completionDate |-> [year |-> 2024, month |-> 4, day |-> 2],
     completionRate |-> 90, trainingHours |-> 1],
    [completionDate |-> [year |-> 2024, month |-> 1, day |-> 20],
     completionRate |-> 100, trainingHours |-> 1] }

TrendLists == UNION {[1..n -> TrendPool] : n \in 0..MaxTrendData}

\* trends after the first n records of d: its own properties in insertion
\* order.
RECURSIVE trendsOf(_, _)
trendsOf(d, n) ==
  IF n = 0 THEN <<>>
  ELSE LET trends == trendsOf(d, n - 1)
           item == d[n]
           month == toLocaleDateString(item.completionDate)
           made == IF \E i \in 1..Len(trends) : trends[i].key = month
                   THEN trends
                   ELSE Append(trends, [key |-> month, totalCompletion |-> 0,
                                        count |-> 0, totalHours |-> 0])
       IN  [i \in 1..Len(made) |->
              IF made[i].key = month
              THEN [made[i] EXCEPT !.totalCompletion = @ + item.completionRate,
                                   !.count = @ + 1,
                                   !.totalHours = @ + item.trainingHours]
              ELSE made[i]]

\* .sort((a, b) => new Date(a.month).getTime() - new Date(b.month).getTime())
RECURSIVE sortByMonth(_, _)
sortByMonth(rows, n) ==
  IF n = 0 THEN <<>>
  ELSE LET sorted == sortByMonth(rows, n - 1)
           x == rows[n]
           before == SelectSeq(sorted, LAMBDA e : getTime(e.month) <= getTime(x.month))
           after == SelectSeq(sorted, LAMBDA e : getTime(e.month) > getTime(x.month))
       IN  before \o <<x>> \o after

sortedTrendsOf(d) ==
  LET listed == objectEntries(trendsOf(d, Len(d)))
      rows == [i \in 1..Len(listed) |->
                [month |-> listed[i].key,
                 avgCompletion |-> Fraction(listed[i].totalCompletion, listed[i].count),
                 trainingHours |-> listed[i].totalHours]]
  IN  sortByMonth(rows, Len(rows))

\* A moving average over the window that ends one bucket earlier.
calculateMovingAverageLagging(rows, windowSize) ==
  [index \in 1..Len(rows) |->
     [month |-> rows[index].month, avgCompletion |-> rows[index].avgCompletion,
      trainingHours |-> rows[index].trainingHours,
      movingAverage |->
        IF Len(rows) < windowSize \/ index - 1 < windowSize
        THEN Null
        ELSE Some(over(sumOfFractions(SubSeq(rows, index - windowSize, index - 1),
                                      windowSize, "avgCompletion"),
                       Whole(windowSize)))]]

\* calculateMovingAverage(data, windowSize); index is 1-based here, and null
\* is Null.
calculateMovingAverage(rows, windowSize) ==
  [index \in 1..Len(rows) |->
     [month |-> rows[index].month, avgCompletion |-> rows[index].avgCompletion,
      trainingHours |-> rows[index].trainingHours,
      movingAverage |->
        IF Len(rows) < windowSize \/ index - 1 < windowSize - 1
        THEN Null
        ELSE Some(over(sumOfFractions(SubSeq(rows, index - windowSize + 1, index),
                                      windowSize, "avgCompletion"),
                       Whole(windowSize)))]]

monthlyDataOf(d) == calculateMovingAverage(sortedTrendsOf(d), 3)

monthlyData == monthlyDataOf(data)

\* TrendAnalysis is rendered with some record list.
TrendInit ==
  /\ \E rows \in TrendLists : data = withIds(rows)
  /\ topTrainees = <<>>
  /\ showMA = TRUE

\* onChange={() => setShowMA(!showMA)}
toggleShowMA ==
  /\ showMA' = ~showMA
  /\ UNCHANGED otherThanTrend

InitTrend == TrendInit /\ DashInit /\ TableIdle /\ InsightsIdle /\ ComparisonIdle /\ BranchIdle /\ SessionIdle /\ PanelIdle /\ ThemeIdle

NextTrend == toggleShowMA

SpecTrend == InitTrend /\ [][NextTrend]_vars

(***************************************************************************)
(* BranchComparison: branchData; CourseAnalysis: courseData, courseTypeData *)
(***************************************************************************)

\* branchMap after the first n records of d, in insertion order; a record
\* without a branch is passed over.
RECURSIVE branchMapOf(_, _)
branchMapOf(d, n) ==
  IF n = 0 THEN <<>>
  ELSE LET branchMap == branchMapOf(d, n - 1)
           item == d[n]
           set == IF \E i \in 1..Len(branchMap) : branchMap[i].key = item.branch
                  THEN branchMap
                  ELSE Append(branchMap, [key |-> item.branch, completionTotal |-> 0,
                                          scoreTotal |-> 0, recordCount |-> 0])
       IN  IF item.branch = ""
           THEN branchMap
           ELSE [i \in 1..Len(set) |->
                  IF set[i].key = item.branch
                  THEN [set[i] EXCEPT !.completionTotal = @ + item.completionRate,
                                      !.scoreTotal = @ + item.averageQuizScore,
                                      !.recordCount = @ + 1]
                  ELSE set[i]]

\* A row of aggregatedData, without displayName, the name as the chart shows it.
branchRow(stats) ==
  [name |-> stats.key,
   completionRate |-> IF stats.recordCount > 0
                      THEN Fraction(stats.completionTotal, stats.recordCount)
                      ELSE Whole(0),
   quizScore |-> IF stats.recordCount > 0
                 THEN Fraction(stats.scoreTotal, stats.recordCount)
                 ELSE Whole(0),
   recordCount |-> stats.recordCount]

\* aggregatedData.sort((a, b) => b[sortBy] - a[sortBy])
RECURSIVE sortByFraction(_, _, _)
sortByFraction(rows, n, field) ==
  IF n = 0 THEN <<>>
  ELSE LET sorted == sortByFraction(rows, n - 1, field)
           x == rows[n]
           ahead == SelectSeq(sorted, LAMBDA e : ~LessThanFraction(e[field], x[field]))
           behind == SelectSeq(sorted, LAMBDA e : LessThanFraction(e[field], x[field]))
       IN  ahead \o <<x>> \o behind

branchDataOf(d, view, by) ==
  LET branchMap == branchMapOf(d, Len(d))
      aggregatedData == [i \in 1..Len(branchMap) |-> branchRow(branchMap[i])]
      sortedData == sortByFraction(aggregatedData, Len(aggregatedData), by)
      n == Len(sortedData)
  IN  IF view = "top5" THEN SubSeq(sortedData, 1, Min(5, n))
      ELSE IF view = "bottom5" THEN SubSeq(sortedData, Max(1, n - 4), n)
      ELSE sortedData

branchData == branchDataOf(data, viewType, sortBy)

\* courseData: a row per course title, in order of first appearance.  A course
\* of the list has a record, so no row is null.
courseDataOf(d) ==
  LET courses == uniqueOf(d, Len(d), "courseTitle")
  IN  [i \in 1..Len(courses) |->
         LET courseRecords == SelectSeq(d, LAMBDA item : item.courseTitle = courses[i])
             n == Len(courseRecords)
         IN  [name |-> courses[i],
              completion |-> Fraction(sumOf(courseRecords, n, "completionRate"), n),
              score |-> Fraction(sumOf(courseRecords, n, "averageQuizScore"), n),
              learners |-> Cardinality({courseRecords[k].traineeName : k \in 1..n})]]

\* courseTypeData: the number of distinct ids of each course type.
courseTypeDataOf(d) ==
  << [name |-> "Mandatory",
      records |-> Cardinality({d[i].id : i \in {j \in 1..Len(d) : d[j].courseType = "Mandatory"}})],
     [name |-> "Optional",
      records |-> Cardinality({d[i].id : i \in {j \in 1..Len(d) : d[j].courseType = "Optional"}})] >>

(***************************************************************************)
(* Overview: companyAvgs and stats                                         *)
(***************************************************************************)

companyAvgsOf(all) ==
  IF Len(all) = 0 THEN [avgCompletion |-> Whole(0)]
  ELSE [avgCompletion |-> Fraction(sumOf(all, Len(all), "completionRate"), Len(all))]

\* Math.round: the nearest integer, a half goes up.
MathRound(x) == (2 * x.num + x.den) \div (2 * x.den)

\* completionDate.getTime(), counted in days of months of 31 days.
dayOf(date) == (12 * date.year + date.month) * 31 + date.day

\* [...records].sort((a, b) => a.completionDate.getTime() - b.completionDate.getTime())
RECURSIVE sortByDate(_, _)
sortByDate(records, n) ==
  IF n = 0 THEN <<>>
  ELSE LET sorted == sortByDate(records, n - 1)
           x == records[n]
           before == SelectSeq(sorted, LAMBDA e :
                       dayOf(e.completionDate) <= dayOf(x.completionDate))
           after == SelectSeq(sorted, LAMBDA e :
                      dayOf(e.completionDate) > dayOf(x.completionDate))
       IN  before \o <<x>> \o after

\* getTrendData(records, key): value(record) is record[key].
getTrendData(records, value(_)) ==
  LET sorted == sortByDate(records, Len(records))
      n == Len(sorted)
      trend == [i \in 1..Min(30, n) |-> [value |-> value(sorted[n - Min(30, n) + i])]]
  IN  IF n < 2 THEN <<>>
      ELSE IF Len(trend) > 1 THEN trend ELSE <<>>

\* The improvement of one record in the sparkline.
sparkImprovement(r) ==
  IF r.preAssessmentScore > 0 THEN improvementOf(r) ELSE Whole(0)

\* stats, without the text and colour of avgCompletionChange for a non-empty
\* list.
statsOf(d, companyAvgs) ==
  IF Len(d) = 0
  THEN [totalLearners |-> 0, avgCompletion |-> 0, activeLearners |-> 0,
        inactiveLearners |-> 0, improvement |-> 0, avgCompletionChange |-> "N/A",
        sparklines |-> [learners |-> <<>>, completion |-> <<>>, improvement |-> <<>>]]
  ELSE LET totalLearners == Cardinality({d[i].traineeName : i \in 1..Len(d)})
           avgCompletion == Fraction(sumOf(d, Len(d), "completionRate"), Len(d))
           activeLearners ==
             Cardinality({d[i].traineeName : i \in {j \in 1..Len(d) : d[j].completionRate > 0}})
           completedTrainings == SelectSeq(d, LAMBDA r : r.postAssessmentScore > 0)
           n == Len(completedTrainings)
           preScores == sumOf(completedTrainings, n, "preAssessmentScore")
           postScores == sumOf(completedTrainings, n, "postAssessmentScore")
           improvement == IF preScores > 0
                          THEN times(Fraction(postScores - preScores, preScores), Whole(100))
                          ELSE Whole(0)
       IN  [totalLearners |-> totalLearners,
            avgCompletion |-> MathRound(avgCompletion),
            activeLearners |-> activeLearners,
            inactiveLearners |-> totalLearners - activeLearners,
            improvement |-> MathRound(improvement),
            avgCompletionChange |->
              plus(avgCompletion, times(Whole(-1), companyAvgs.avgCompletion)),
            sparklines |->
              [learners |-> getTrendData(d, LAMBDA r : r.id),
               completion |-> getTrendData(d, LAMBDA r : r.completionRate),
               improvement |-> getTrendData(d, sparkImprovement)]]

(***************************************************************************)
(* The counts the aggregations divide by                                   *)
(***************************************************************************)

\* The divisors of the divisions that the aggregations make on the list d: a
\* guarded division (count > 0 ? total / count : 0) divides only when its
\* guard holds.
dividedBy(d) ==
  LET traineeScores == traineeScoresOf(d, Len(d))
      branchRates == ratesOf(d, Len(d), "branch", FALSE)
      supervisorRates == ratesOf(d, Len(d), "supervisor", TRUE)
      courseStats == courseStatsOf(d, Len(d))
      improverStats == improverStatsOf(d, Len(d))
      branchMap == branchMapOf(d, Len(d))
      trends == trendsOf(d, Len(d))
      processedData == processedDataOf(d)
      completedTrainings == SelectSeq(d, LAMBDA r : r.postAssessmentScore > 0)
      preScores == sumOf(completedTrainings, Len(completedTrainings), "preAssessmentScore")
  IN  \* topTrainees, topBranches, topSupervisors
      {traineeScores[i].count : i \in 1..Len(traineeScores)}
        \cup {branchRates[i].count : i \in 1..Len(branchRates)}
        \cup {supervisorRates[i].count : i \in 1..Len(supervisorRates)}
      \* coursesNeedingAttention, topPerformingCourses
        \cup {courseStats[i].recordCount : i \in 1..Len(courseStats)}
        \cup {courseStats[i].scoreCount :
                i \in {j \in 1..Len(courseStats) : courseStats[j].scoreCount > 0}}
      \* topImprovers
        \cup {d[i].preAssessmentScore :
                i \in {j \in 1..Len(d) :
                         /\ d[j].preAssessmentScore > 0 /\ d[j].postAssessmentScore > 0
                         /\ d[j].email # ""}}
        \cup {improverStats[i].courseCount :
                i \in {j \in 1..Len(improverStats) : improverStats[j].courseCount > 0}}
      \* branchData, courseData
        \cup {branchMap[i].recordCount :
                i \in {j \in 1..Len(branchMap) : branchMap[j].recordCount > 0}}
        \cup {Cardinality({k \in 1..Len(d) : d[k].courseTitle = d[i].courseTitle}) :
                i \in 1..Len(d)}
      \* monthlyData, calculateMovingAverage
        \cup {trends[i].count : i \in 1..Len(trends)}
        \cup (IF Len(trends) < 3 THEN {} ELSE {3})
      \* scatterData
        \cup {processedData[i].z \div 50 : i \in 1..Len(processedData)}
        \cup (IF Len(processedData) = 0 THEN {} ELSE {Len(processedData)})
      \* companyAvgs, stats, calculateKpis
        \cup (IF Len(d) = 0 THEN {} ELSE {Len(d)})
        \cup (IF Len(d) = 0 \/ Len(completedTrainings) = 0 THEN {}
              ELSE {Len(completedTrainings)})
        \cup (IF Len(d) = 0 \/ preScores <= 0 THEN {} ELSE {preScores})
        \cup {d[i].preAssessmentScore :
                i \in {j \in 1..Len(d) : d[j].preAssessmentScore > 0}}

(***************************************************************************)
(* The sections of the dashboard on one data prop                          *)
(***************************************************************************)

ViewTypes == {"all", "top5", "bottom5"}
SortKeys == {"completionRate", "quizScore"}

\* The sections are rendered with some record list as their data prop.
SectionsInit ==
  /\ \E rows \in InsightLists : data = withIds(rows)
  /\ topTrainees = topTraineesOf(data)
  /\ viewType = "all" /\ sortBy = "completionRate"

\* onClick={() => setViewType(opt.id)}
setViewType(id) ==
  /\ viewType' = id
  /\ sortBy' = sortBy
  /\ UNCHANGED otherThanBranch

\* onClick={() => setSortBy(opt.id)}
setSortBy(id) ==
  /\ sortBy' = id
  /\ viewType' = viewType
  /\ UNCHANGED otherThanBranch

InitSections ==
  /\ SectionsInit /\ DashInit /\ TableIdle /\ InsightsIdle /\ ComparisonIdle /\ TrendIdle
  /\ SessionIdle /\ PanelIdle /\ ThemeIdle

NextSections ==
  \/ \E id \in ViewTypes : setViewType(id)
  \/ \E id \in SortKeys : setSortBy(id)

SpecSections == InitSections /\ [][NextSections]_vars

(***************************************************************************)
(* Leaderboard: properties                                                 *)
(***************************************************************************)

\* The positions in data of the records of an email with a positive score.
ScoredPositions(email) ==
  {i \in 1..Len(data) : data[i].email = email /\ data[i].postAssessmentScore > 0}

RECURSIVE SumOfScores(_)
SumOfScores(positions) ==
  IF positions = {} THEN 0
  ELSE LET i == CHOOSE j \in positions : TRUE
       IN  data[i].postAssessmentScore + SumOfScores(positions \ {i})

\* tenths is the mean of the scores at the positions, rounded to one decimal.
IsRoundedMean(tenths, positions) ==
  LET n == Cardinality(positions)
      twice == 20 * SumOfScores(positions) - 2 * tenths * n
  IN  n > 0 /\ -n <= twice /\ twice <= n

\* The rows of Top Trainees for the emails in scored: one row each, with the
\* rounded mean of the positive scores, highest average first.
TopTraineesAre(scored) ==
  /\ Len(topTrainees) = Cardinality(scored)
  /\ {topTrainees[i].email : i \in 1..Len(topTrainees)} = scored
  /\ \A i \in 1..Len(topTrainees) :
       IsRoundedMean(topTrainees[i].avgScore, ScoredPositions(topTrainees[i].email))
  /\ \A i, j \in 1..Len(topTrainees) :
       i < j => topTrainees[i].avgScore >= topTrainees[j].avgScore
  /\ (/\ Len(data) = 2
      /\ \A i \in 1..2 : data[i].email = "a@x.com" /\ data[i].traineeName = "A"
      /\ data[1].postAssessmentScore = 80 /\ data[2].postAssessmentScore = 90)
       => topTrainees = << [email |-> "a@x.com", name |-> "A", avgScore |-> 850,
                            courseCount |-> 2, rank |-> 1] >>

\* C10 as stated: Top Trainees has exactly one row per distinct non-empty email
\* with at least one record of positive postAssessmentScore, other records
\* contribute to no row, avgScore is the mean of the email's positive scores
\* rounded to one decimal, and the rows are in non-increasing avgScore order.
C10_OneRowPerScoredEmail ==
  TopTraineesAre({data[i].email : i \in {j \in 1..Len(data) :
                    data[j].email # "" /\ data[j].postAssessmentScore > 0}})

\* C10 for the emails that are not names inherited from Object.prototype:
\* these, and only these, have a row.
C10_OneRowPerOwnScoredEmail ==
  TopTraineesAre({data[i].email : i \in {j \in 1..Len(data) :
                    /\ data[j].email # "" /\ data[j].postAssessmentScore > 0
                    /\ data[j].email \notin InheritedKeys}})

\* A record with the email "constructor" and a positive score is in data next
\* to a scored record of a@x.com, and Top Trainees has the row of a@x.com only.
C10_Witness ==
  /\ \E i \in 1..Len(data) :
       data[i].email = "constructor" /\ data[i].postAssessmentScore > 0
  /\ Len(topTrainees) = 1 /\ topTrainees[1].email = "a@x.com"

\* Two records of a@x.com with scores 80 and 90 give one row, 85.0, rank 1.
C10_ScenarioWitness ==
  /\ Len(data) = 2
  /\ topTrainees = << [email |-> "a@x.com", name |-> "A", avgScore |-> 850,
                       courseCount |-> 2, rank |-> 1] >>

\* The keys of the groups of rows, by the field that names the group.
GroupNames(rows, nameField) == [i \in 1..Len(rows) |-> rows[i][nameField]]

\* The ranks of the rows are 1..N by position.
RanksByPosition(rows) == \A i \in 1..Len(rows) : rows[i].rank = i

\* The first position in data of a record that starts the group: Starts(r, name)
\* says that r is a record of the group name that the leaderboard reads.
FirstPosition(Starts(_, _), name) ==
  CHOOSE i \in 1..Len(data) :
    /\ Starts(data[i], name)
    /\ \A j \in 1..(i - 1) : ~Starts(data[j], name)

\* Rows with equal averages are in the order in which their groups first
\* appear in data.
TiesInInputOrder(rows, nameField, avgField, Starts(_, _)) ==
  \A i, j \in 1..Len(rows) :
    i < j /\ rows[i][avgField] = rows[j][avgField] =>
      FirstPosition(Starts, rows[i][nameField]) < FirstPosition(Starts, rows[j][nameField])

StartsTrainee(r, name) == r.email = name /\ r.postAssessmentScore > 0
StartsBranch(r, name) == r.branch = name
StartsSupervisor(r, name) == r.supervisor = name
StartsImprover(r, name) ==
  r.email = name /\ r.preAssessmentScore > 0 /\ r.postAssessmentScore > 0

\* The ranks of the four leaderboards are 1..N by sort position.
AllRanksByPosition ==
  /\ RanksByPosition(topTrainees) /\ RanksByPosition(topBranches)
  /\ RanksByPosition(topSupervisors) /\ RanksByPosition(topImprovers)

\* Highest average first in the four leaderboards.
AllSortedDescending ==
  /\ \A i, j \in 1..Len(topTrainees) :
       i < j => topTrainees[i].avgScore >= topTrainees[j].avgScore
  /\ \A i, j \in 1..Len(topBranches) :
       i < j => topBranches[i].avgRate >= topBranches[j].avgRate
  /\ \A i, j \in 1..Len(topSupervisors) :
       i < j => topSupervisors[i].avgRate >= topSupervisors[j].avgRate
  /\ \A i, j \in 1..Len(topImprovers) :
       i < j => topImprovers[i].avgImprovement >= topImprovers[j].avgImprovement

\* C11 as stated: in Top Trainees, Top Branches, Top Supervisors and Top
\* Improvers the ranks of the N rows are 1..N, given by sort position, and rows
\* with equal averages are ranked in the order in which their groups first
\* appear in the input.
C11_RanksAndTiesInInputOrder ==
  /\ AllRanksByPosition
  /\ AllSortedDescending
  /\ TiesInInputOrder(topTrainees, "email", "avgScore", StartsTrainee)
  /\ TiesInInputOrder(topBranches, "name", "avgRate", StartsBranch)
  /\ TiesInInputOrder(topSupervisors, "name", "avgRate", StartsSupervisor)
  /\ TiesInInputOrder(topImprovers, "email", "avgImprovement", StartsImprover)

\* The rows of a leaderboard whose group names are not array indices.
NamedRows(rows, nameField) == SelectSeq(rows, LAMBDA row : row[nameField] \notin IndexKeys)

\* C11 for the groups whose names are not array indices: ranks 1..N by sort
\* position in every leaderboard, and ties among these groups in input order.
C11_RanksAndTiesOfNamedGroups ==
  /\ AllRanksByPosition
  /\ AllSortedDescending
  /\ TiesInInputOrder(NamedRows(topTrainees, "email"), "email", "avgScore", StartsTrainee)
  /\ TiesInInputOrder(NamedRows(topBranches, "name"), "name", "avgRate", StartsBranch)
  /\ TiesInInputOrder(NamedRows(topSupervisors, "name"), "name", "avgRate", StartsSupervisor)
  /\ TiesInInputOrder(NamedRows(topImprovers, "email"), "email", "avgImprovement",
                      StartsImprover)

\* Branch "10" comes before branch "7" in data with the same average, and Top
\* Branches ranks "7" first.
C11_Witness ==
  /\ Len(data) = 2 /\ data[1].branch = "10" /\ data[2].branch = "7"
  /\ Len(topBranches) = 2
  /\ topBranches[1].name = "7" /\ topBranches[1].rank = 1
  /\ topBranches[2].name = "10" /\ topBranches[2].rank = 2
  /\ topBranches[1].avgRate = topBranches[2].avgRate

\* No row of the leaderboard has an empty group name, and the rows are those of
\* the records that have a group name: the others are counted in no average
\* and in no trainee count.
NoRowForEmptyName(rows, Board(_), field) ==
  /\ \A i \in 1..Len(rows) : rows[i].name # ""
  /\ rows = Board(SelectSeq(data, LAMBDA r : r[field] # ""))

\* C12 as stated: a record with an empty branch gives no row in Top Branches
\* and a record with an empty supervisor gives no row in Top Supervisors; no
\* row has an empty group name, and these records are counted in no row.
C12_NoRowForEmptyGroupName ==
  /\ NoRowForEmptyName(topBranches, topBranchesOf, "branch")
  /\ NoRowForEmptyName(topSupervisors, topSupervisorsOf, "supervisor")

\* C12 for Top Supervisors, and for the copy of Top Branches that tests the
\* branch: no row for an empty name.
C12_NoRowForEmptySupervisor ==
  /\ NoRowForEmptyName(topSupervisors, topSupervisorsOf, "supervisor")
  /\ NoRowForEmptyName(topBranchesWithGuardOf(data), topBranchesWithGuardOf, "branch")

\* The second record has no branch: Top Branches has a row with the empty name
\* for it, ranked first with its completion rate of 100.
C12_Witness ==
  /\ Len(data) = 2 /\ data[1].branch = "b1" /\ data[2].branch = ""
  /\ Len(topBranches) = 2
  /\ topBranches[1].name = "" /\ topBranches[1].avgRate = 1000
  /\ topBranches[1].traineeCount = 1

(***************************************************************************)
(* ActionableInsights: properties                                          *)
(***************************************************************************)

\* The flags of a record: low completion, low score.
CompletionFlag(record) == record.completionRate < thresholds.AT_RISK_COMPLETION
ScoreFlag(record) ==
  record.postAssessmentScore > 0 /\ record.postAssessmentScore < thresholds.AT_RISK_SCORE
Flagged(record) == CompletionFlag(record) \/ ScoreFlag(record)

\* The number of flags of the records of a trainee, and the positions of the
\* trainee's flagged records.
FlagCount(record) ==
  (IF CompletionFlag(record) THEN 1 ELSE 0) + (IF ScoreFlag(record) THEN 1 ELSE 0)
FlaggedPositions(name) ==
  {i \in 1..Len(data) : data[i].traineeName = name /\ Flagged(data[i])}

RECURSIVE FlagsAt(_)
FlagsAt(positions) ==
  IF positions = {} THEN 0
  ELSE LET i == CHOOSE j \in positions : TRUE
       IN  FlagCount(data[i]) + FlagsAt(positions \ {i})

\* The course a reason names: the part before the closing quote.
CourseNamed(reason) == reason[Len(reason) - 1]

\* C13: At-Risk Trainees has at most one row per traineeName, a row exactly for
\* the trainees with a flagged record, and the reasons of a row are one string
\* per flag of the trainee's flagged records, each naming the course of its
\* record; unflagged records add none.
C13_AtRiskRowsAndReasons ==
  /\ \A i, j \in 1..Len(atRiskTrainees) :
       atRiskTrainees[i].trainee.traineeName = atRiskTrainees[j].trainee.traineeName => i = j
  /\ {atRiskTrainees[i].trainee.traineeName : i \in 1..Len(atRiskTrainees)}
       = {data[i].traineeName : i \in {j \in 1..Len(data) : Flagged(data[j])}}
  /\ \A i \in 1..Len(atRiskTrainees) :
       LET row == atRiskTrainees[i]
           positions == FlaggedPositions(row.trainee.traineeName)
       IN  /\ Len(row.reasons) = FlagsAt(positions)
           /\ \A p \in positions :
                Cardinality({k \in 1..Len(row.reasons) :
                               CourseNamed(row.reasons[k]) = data[p].courseTitle})
                  = FlagsAt({q \in positions : data[q].courseTitle = data[p].courseTitle})
           /\ \A k \in 1..Len(row.reasons) :
                \E p \in positions : CourseNamed(row.reasons[k]) = data[p].courseTitle
  /\ (/\ Len(data) = 2 /\ thresholds.AT_RISK_COMPLETION = 30
      /\ thresholds.AT_RISK_SCORE = 50
      /\ data[1].traineeName = data[2].traineeName
      /\ data[1].completionRate = 20 /\ data[2].completionRate = 90
      /\ ~ScoreFlag(data[1]) /\ ~ScoreFlag(data[2]))
       => /\ Len(atRiskTrainees) = 1
          /\ atRiskTrainees[1].reasons
               = << <<"Completion < ", 30, "%", " on '", data[1].courseTitle, "'">> >>

\* Trainee A has completion 20 on c1 and 90 on c2 at the default thresholds:
\* one row, one reason, on c1.
C13_Witness ==
  /\ thresholds = DEFAULT_THRESHOLDS /\ Len(data) = 2
  /\ data[1].completionRate = 20 /\ data[2].completionRate = 90
  /\ Len(atRiskTrainees) = 1 /\ atRiskTrainees[1].trainee.traineeName = "A"
  /\ atRiskTrainees[1].reasons = << <<"Completion < ", 30, "%", " on '", "c1", "'">> >>

\* Both flags of one record are raised at thresholds of 85.
C13_TwoFlagsWitness ==
  /\ thresholds.AT_RISK_COMPLETION = 85 /\ thresholds.AT_RISK_SCORE = 85
  /\ Len(atRiskTrainees) = 1 /\ Len(atRiskTrainees[1].reasons) = 3

\* The records that were assessed: the score is not exactly 0.
Assessed(d) == SelectSeq(d, LAMBDA r : r.postAssessmentScore # 0)

\* The value of a field of the row named key, or none when key has no row.
ValueOfRow(rows, nameField, key, field, none) ==
  IF \E i \in 1..Len(rows) : rows[i][nameField] = key
  THEN rows[CHOOSE i \in 1..Len(rows) : rows[i][nameField] = key][field]
  ELSE none

\* A record of score 0 raises no score flag.
NoScoreFlagAtZero ==
  \A i \in 1..Len(data) :
    data[i].postAssessmentScore = 0 =>
      \A k \in 1..Len(reasonsOf(data[i], thresholds)) :
        reasonsOf(data[i], thresholds)[k][1] # "Score < "

\* The score means of the courses, of Top Trainees, of Top Improvers and of the
\* comparison KPIs are those of the assessed records alone.
MeansOfAssessedOnly ==
  /\ \A i \in 1..Len(courseRowsOf(data)) :
       courseRowsOf(data)[i].avgScore
         = ValueOfRow(courseRowsOf(Assessed(data)), "title",
                   courseRowsOf(data)[i].title, "avgScore", 0)
  /\ \A i \in 1..Len(topPerformingCourses) :
       topPerformingCourses[i].avgScore
         = ValueOfRow(topPerformingCoursesOf(Assessed(data)), "title",
                   topPerformingCourses[i].title, "avgScore", Whole(0))
  /\ topTrainees = topTraineesOf(Assessed(data))
  /\ topImprovers = topImproversOf(Assessed(data))
  /\ calculateKpis(data).avgPostScore = calculateKpis(Assessed(data)).avgPostScore
  /\ calculateKpis(data).improvement = calculateKpis(Assessed(data)).improvement

\* The performance of a learner in the scatter is the mean of the learner's
\* assessed records (0 when there is none).
ScatterOfAssessedOnly ==
  \A i \in 1..Len(scatterOf(data).scatterData) :
    scatterOf(data).scatterData[i].y
      = ValueOfRow(scatterOf(Assessed(data)).scatterData, "name",
                scatterOf(data).scatterData[i].name, "y", Whole(0))

\* C14 as stated: a postAssessmentScore of exactly 0 is "not assessed" in every
\* aggregation that reads the score (at-risk flag, course average score, Top
\* Trainees, Top Improvers, comparison KPIs, engagement/performance scatter):
\* such a record raises no score flag at any threshold and is counted in no
\* score mean.
C14_ZeroScoreIsNotAssessed ==
  NoScoreFlagAtZero /\ MeansOfAssessedOnly /\ ScatterOfAssessedOnly

\* C14 without the scatter: no score flag at score 0 and the means of the other
\* aggregations leave the records of score 0 out.
C14_ZeroScoreLeftOutOfFlagsAndMeans == NoScoreFlagAtZero /\ MeansOfAssessedOnly

\* Learner B has a record of score 85 and a record of score 0, AT_RISK_SCORE is
\* 85, and the scatter gives B the performance 42.5 = 85 / 2.
C14_Witness ==
  /\ Len(data) = 2 /\ thresholds.AT_RISK_SCORE = 85
  /\ data[1].traineeName = "B" /\ data[2].traineeName = "B"
  /\ data[1].postAssessmentScore = 85 /\ data[2].postAssessmentScore = 0
  /\ Len(scatterOf(data).scatterData) = 1
  /\ scatterOf(data).scatterData[1].y = Fraction(85, 2)
  /\ calculateKpis(data).avgPostScore = Whole(85)

\* The sum of a field over the records at the positions, and their mean in
\* tenths, rounded to one decimal.
RECURSIVE SumAt(_, _)
SumAt(positions, field) ==
  IF positions = {} THEN 0
  ELSE LET i == CHOOSE j \in positions : TRUE
       IN  data[i][field] + SumAt(positions \ {i}, field)

RoundedMeanAt(positions, field) ==
  LET n == Cardinality(positions)
  IN  (20 * SumAt(positions, field) + n) \div (2 * n)

CoursePositions(title) == {i \in 1..Len(data) : data[i].courseTitle = title}
AssessedPositions(title) ==
  {i \in CoursePositions(title) : data[i].postAssessmentScore > 0}

\* The averages of a course as Courses Needing Attention defines them.
AvgCompletionOf(title) == RoundedMeanAt(CoursePositions(title), "completionRate")
AvgScoreOf(title) ==
  IF AssessedPositions(title) = {} THEN 0
  ELSE RoundedMeanAt(AssessedPositions(title), "postAssessmentScore")

\* The two ways into Courses Needing Attention.
ByCompletion(title) == AvgCompletionOf(title) < 10 * thresholds.COURSE_ATTENTION_COMPLETION
ByScore(title) ==
  AvgScoreOf(title) > 0 /\ AvgScoreOf(title) < 10 * thresholds.COURSE_ATTENTION_SCORE

\* The listed courses are those of data that come in by completion or by
\* score, once each, with their averages.
CoursesListedByThresholds ==
  /\ \A i \in 1..Len(data) :
       (\E k \in 1..Len(listedCourses) : listedCourses[k].title = data[i].courseTitle)
         <=> (ByCompletion(data[i].courseTitle) \/ ByScore(data[i].courseTitle))
  /\ \A k \in 1..Len(listedCourses) :
       /\ \E i \in 1..Len(data) : data[i].courseTitle = listedCourses[k].title
       /\ \A j \in 1..Len(listedCourses) :
            listedCourses[j].title = listedCourses[k].title => j = k
       /\ listedCourses[k].avgCompletion = AvgCompletionOf(listedCourses[k].title)
       /\ listedCourses[k].avgScore = AvgScoreOf(listedCourses[k].title)
       /\ AssessedPositions(listedCourses[k].title) = {}
            => ByCompletion(listedCourses[k].title)

\* C15 as stated: Courses Needing Attention contains a course if and only if
\* its avgCompletion (one decimal) is below COURSE_ATTENTION_COMPLETION, or its
\* avgScore (mean of the positive scores, one decimal, 0 when there is none) is
\* above 0 and below COURSE_ATTENTION_SCORE; a course with no assessed record
\* enters only through the completion condition.
C15_CoursesByThresholds == CoursesListedByThresholds

\* C15 for the record lists on which the aggregation does not throw.
C15_CoursesByThresholdsUnlessThrown ==
  ~coursesNeedingAttentionThrows => CoursesListedByThresholds

\* A record of the course "constructor" with completion 40 is below the
\* default threshold of 60, the aggregation throws and no course is listed.
C15_Witness ==
  /\ thresholds = DEFAULT_THRESHOLDS
  /\ \E i \in 1..Len(data) :
       data[i].courseTitle = "constructor" /\ ByCompletion(data[i].courseTitle)
  /\ coursesNeedingAttentionThrows /\ listedCourses = <<>>

\* A listed course that came in by its score alone.
C15_ByScoreWitness ==
  /\ Len(listedCourses) = 1
  /\ ~ByCompletion(listedCourses[1].title) /\ ByScore(listedCourses[1].title)

\* The positions in data of the records of an email that improved: both scores
\* positive and post above pre.
ImprovedPositions(email) ==
  {i \in 1..Len(data) :
     /\ data[i].email = email
     /\ data[i].preAssessmentScore > 0 /\ data[i].postAssessmentScore > 0
     /\ data[i].postAssessmentScore > data[i].preAssessmentScore}

\* The sum of (post - pre) / pre * 100 over the records at the positions.
RECURSIVE ImprovementAt(_)
ImprovementAt(positions) ==
  IF positions = {} THEN Whole(0)
  ELSE LET i == CHOOSE j \in positions : TRUE
       IN  plus(Fraction((data[i].postAssessmentScore - data[i].preAssessmentScore) * 100,
                         data[i].preAssessmentScore),
                ImprovementAt(positions \ {i}))

\* The rows of Top Improvers are those of the emails in improved, one each,
\* with the mean of the improvements of the improved records, to one decimal.
TopImproversAre(improved) ==
  /\ Len(topImprovers) = Cardinality(improved)
  /\ {topImprovers[i].email : i \in 1..Len(topImprovers)} = improved
  /\ \A i \in 1..Len(topImprovers) :
       LET positions == ImprovedPositions(topImprovers[i].email)
           total == ImprovementAt(positions)
           n == Cardinality(positions)
       IN  /\ n > 0
           /\ topImprovers[i].avgImprovement
                = (20 * total.num + total.den * n) \div (2 * total.den * n)

\* C16 as stated: Top Improvers has a row for an email if and only if the email
\* is non-empty and has a record with preAssessmentScore > 0,
\* postAssessmentScore > 0 and post > pre; avgImprovement is the mean of
\* (post - pre) / pre * 100 over those records only, so a record of zero or
\* negative improvement neither lowers the average nor counts in it.
C16_RowPerImprovedEmail ==
  TopImproversAre({data[i].email : i \in {j \in 1..Len(data) :
                     data[j].email # "" /\ j \in ImprovedPositions(data[j].email)}})

\* C16 for the emails that are not names inherited from Object.prototype.
C16_RowPerOwnImprovedEmail ==
  TopImproversAre({data[i].email : i \in {j \in 1..Len(data) :
                     /\ data[j].email # "" /\ j \in ImprovedPositions(data[j].email)
                     /\ data[j].email \notin InheritedKeys}})

\* The email "constructor" improved from 40 to 70 and has no row.
C16_Witness ==
  /\ \E i \in 1..Len(data) :
       data[i].email = "constructor" /\ i \in ImprovedPositions("constructor")
  /\ \A k \in 1..Len(topImprovers) : topImprovers[k].email # "constructor"

\* b@x.com went from 90 to 85 on one record and from 40 to 80 on another: one
\* row, 100.0, the mean over the improved record alone.
C16_NegativeLeftOutWitness ==
  /\ Len(data) = 2 /\ data[1].email = "b@x.com" /\ data[2].email = "b@x.com"
  /\ data[1].preAssessmentScore = 90 /\ data[1].postAssessmentScore = 85
  /\ data[2].preAssessmentScore = 40 /\ data[2].postAssessmentScore = 80
  /\ Len(topImprovers) = 1 /\ topImprovers[1].avgImprovement = 1000

\* a@x.com improved by 100 and by 12.5: the mean 56.25 is shown as 56.3.
C16_MeanWitness ==
  /\ Len(data) = 2 /\ Len(topImprovers) = 1
  /\ Cardinality(ImprovedPositions("a@x.com")) = 2
  /\ topImprovers[1].avgImprovement = 563

(***************************************************************************)
(* ComparisonTool: properties                                              *)
(***************************************************************************)

AllZeroKpis ==
  [totalLearners |-> 0, avgCompletion |-> Whole(0), avgPostScore |-> Whole(0),
   improvement |-> Whole(0), totalHours |-> 0, recordCount |-> 0]

\* The sum of a field over the records of a subset with a positive
\* postAssessmentScore, and their number.
RECURSIVE AssessedSum(_, _)
AssessedSum(subset, field) ==
  IF subset = <<>> THEN 0
  ELSE (IF Head(subset).postAssessmentScore > 0 THEN Head(subset)[field] ELSE 0)
         + AssessedSum(Tail(subset), field)

AssessedCount(subset) ==
  Cardinality({i \in 1..Len(subset) : subset[i].postAssessmentScore > 0})

\* x is the number num / den.
IsQuotient(x, num, den) == x.den > 0 /\ x.num * den = num * x.den

\* The KPIs of a subset are those of the claim.
KpisAsClaimed(kpis, subset) ==
  LET pre == AssessedSum(subset, "preAssessmentScore")
      post == AssessedSum(subset, "postAssessmentScore")
  IN  /\ subset = <<>> => kpis = AllZeroKpis
      /\ subset # <<>> =>
           /\ kpis.recordCount = Len(subset)
           /\ pre # 0 => IsQuotient(kpis.improvement, (post - pre) * 100, pre)
           /\ pre = 0 => kpis.improvement = Whole(0)
           /\ AssessedCount(subset) = 0 => kpis.avgPostScore = Whole(0)
           /\ AssessedCount(subset) > 0 =>
                IsQuotient(kpis.avgPostScore, post, AssessedCount(subset))

\* C17: calculateKpis returns all-zero KPIs for an empty subset; for a
\* non-empty subset improvement is (sum of post - sum of pre) / sum of pre * 100
\* over the records with postAssessmentScore > 0, from the summed scores, and 0
\* when that sum of pre-scores is 0; avgPostScore is 0 when no record has
\* postAssessmentScore > 0.
C17_KpisOfSubset ==
  KpisAsClaimed(kpisA, groupAData) /\ KpisAsClaimed(kpisB, groupBData)

\* Group A is branch b1 with the records 40 -> 80 and 80 -> 90: improvement
\* (170 - 120) / 120 * 100 = 125 / 3, not the mean 56.25 of the two records.
\* Group B is district head d2 with an unassessed record of pre-score 40 next
\* to the record 80 -> 90: improvement 12.5.
C17_Witness ==
  /\ groupA = [category |-> "branch", value |-> "b1"]
  /\ Len(groupAData) = 2 /\ AssessedSum(groupAData, "preAssessmentScore") = 120
  /\ kpisA.improvement = [num |-> 125, den |-> 3]
  /\ groupB = [category |-> "districtHead", value |-> "d2"]
  /\ Len(groupBData) = 2 /\ AssessedCount(groupBData) = 1
  /\ kpisB.improvement = [num |-> 25, den |-> 2]
  /\ kpisB.avgPostScore = Whole(90)

\* A subset whose assessed records have no pre-score, and a subset without an
\* assessed record: improvement 0 and avgPostScore 0.
C17_ZeroWitness ==
  /\ groupAData # <<>> /\ AssessedCount(groupAData) > 0
  /\ AssessedSum(groupAData, "preAssessmentScore") = 0
  /\ kpisA.improvement = Whole(0) /\ kpisA.avgPostScore = Whole(81)
  /\ groupBData # <<>> /\ AssessedCount(groupBData) = 0
  /\ kpisB.avgPostScore = Whole(0) /\ kpisB.improvement = Whole(0)

\* No group is chosen for A while B has records: the KPIs of A are all zero.
C17_EmptyWitness ==
  /\ groupA.value = "" /\ groupAData = <<>> /\ kpisA = AllZeroKpis
  /\ groupBData # <<>>

(***************************************************************************)
(* TrendAnalysis: properties                                               *)
(***************************************************************************)

\* The records of data completed in the month of a label, and their mean
\* completionRate.
MonthPositions(label) ==
  {i \in 1..Len(data) : toLocaleDateString(data[i].completionDate) = label}

\* The buckets are the months of data, in chronological order, each with the
\* mean completionRate of its records.
BucketsAreMonths(buckets) ==
  /\ {buckets[i].month : i \in 1..Len(buckets)}
       = {toLocaleDateString(data[i].completionDate) : i \in 1..Len(data)}
  /\ \A i, j \in 1..Len(buckets) :
       i < j => getTime(buckets[i].month) < getTime(buckets[j].month)
  /\ \A i \in 1..Len(buckets) :
       IsQuotient(buckets[i].avgCompletion,
                  SumAt(MonthPositions(buckets[i].month), "completionRate"),
                  Cardinality(MonthPositions(buckets[i].month)))

\* x + y + z = 3 * m, for fractions.
IsMeanOfThree(m, x, y, z) == plus(plus(x, y), z) = times(Whole(3), m)

\* The moving averages of the buckets are null for the first two and the mean
\* of the last three monthly values after.
TrailingMeans(buckets) ==
  /\ \A i \in 1..Len(buckets) :
       /\ i <= 2 => buckets[i].movingAverage = Null
       /\ i > 2 =>
            /\ buckets[i].movingAverage # Null
            /\ IsMeanOfThree(buckets[i].movingAverage[1], buckets[i - 2].avgCompletion,
                             buckets[i - 1].avgCompletion, buckets[i].avgCompletion)
  /\ [i \in 1..Len(buckets) |-> buckets[i].avgCompletion]
       = <<Whole(50), Whole(60), Whole(70), Whole(80), Whole(90)>>
     => [i \in 1..Len(buckets) |-> buckets[i].movingAverage]
          = <<Null, Null, Some(Whole(60)), Some(Whole(70)), Some(Whole(80))>>

\* C18: the 3-point moving average is null for the first two monthly buckets
\* and, for every later bucket i, (avg[i-2] + avg[i-1] + avg[i]) / 3 over the
\* chronologically sorted monthly means of completionRate; with fewer than
\* three buckets every value is null; 50, 60, 70, 80, 90 give null, null, 60,
\* 70, 80.
C18_MovingAverage ==
  LET buckets == monthlyData
  IN  BucketsAreMonths(buckets) /\ TrailingMeans(buckets)

\* Five records, not in the order of their dates, with the monthly values 50,
\* 60, 70, 80, 90: the moving averages are null, null, 60, 70, 80.
C18_Witness ==
  /\ Len(data) = 5 /\ data[1].completionRate = 90 /\ data[5].completionRate = 50
  /\ [i \in 1..Len(monthlyData) |-> monthlyData[i].avgCompletion]
       = <<Whole(50), Whole(60), Whole(70), Whole(80), Whole(90)>>
  /\ [i \in 1..Len(monthlyData) |-> monthlyData[i].movingAverage]
       = <<Null, Null, Some(Whole(60)), Some(Whole(70)), Some(Whole(80))>>

\* Two buckets, one of them the mean of two records: no moving average.
C18_TwoBucketsWitness ==
  /\ Len(data) = 3 /\ Len(monthlyData) = 2
  /\ monthlyData[2].avgCompletion = Whole(80)
  /\ \A i \in 1..2 : monthlyData[i].movingAverage = Null

(***************************************************************************)
(* The sections: properties                                                *)
(***************************************************************************)

\* Every aggregation gives no row, or zeros.
AllEmptyOrZero ==
  /\ topTrainees = <<>> /\ topBranches = <<>> /\ topSupervisors = <<>>
  /\ atRiskTrainees = <<>>
  /\ ~coursesNeedingAttentionThrows /\ coursesNeedingAttention = <<>>
  /\ topImprovers = <<>> /\ topPerformingCourses = <<>>
  /\ branchData = <<>> /\ courseDataOf(data) = <<>>
  /\ \A i \in 1..2 : courseTypeDataOf(data)[i].records = 0
  /\ monthlyData = <<>>
  /\ scatterOf(data)
       = [scatterData |-> <<>>, avgEngagement |-> Whole(0), avgPerformance |-> Whole(0)]
  /\ companyAvgsOf(data) = [avgCompletion |-> Whole(0)]
  /\ LET stats == statsOf(data, companyAvgsOf(data))
     IN  /\ stats.totalLearners = 0 /\ stats.avgCompletion = 0
         /\ stats.activeLearners = 0 /\ stats.inactiveLearners = 0
         /\ stats.improvement = 0
         /\ stats.sparklines
              = [learners |-> <<>>, completion |-> <<>>, improvement |-> <<>>]
  /\ calculateKpis(data) = AllZeroKpis

\* C19: given a zero-length record list, every aggregation (leaderboards,
\* at-risk, courses needing attention, top improvers, top performing courses,
\* branch and course rollups, trend, scatter, overview and comparison KPIs)
\* returns an empty row list or an all-zero KPI structure, and no aggregation
\* ever divides by a zero count.
C19_EmptyListAndNoZeroCount ==
  /\ data = <<>> => AllEmptyOrZero
  /\ 0 \notin dividedBy(data)

\* The record list is empty under the Top 5 view: no rows, zero KPIs.
C19_Witness ==
  /\ data = <<>> /\ viewType = "top5"
  /\ branchData = <<>> /\ scatterOf(data).avgPerformance = Whole(0)
  /\ calculateKpis(data) = AllZeroKpis

\* A course without an assessed record: its average score is replaced by 0.
C19_GuardWitness ==
  /\ Len(data) = 1 /\ data[1].postAssessmentScore = 0
  /\ Len(topPerformingCourses) = 1 /\ topPerformingCourses[1].avgScore = Whole(0)
  /\ calculateKpis(data).avgPostScore = Whole(0)

\* The sum of a field over rows.
RECURSIVE SumOfField(_, _)
SumOfField(rows, field) ==
  IF rows = <<>> THEN 0 ELSE Head(rows)[field] + SumOfField(Tail(rows), field)

\* The counts of the branch rollup add up to the records with a branch, and
\* those of the course-type rollup to all records.
RollupCountsAddUp ==
  /\ SumOfField(branchData, "recordCount")
       = Cardinality({i \in 1..Len(data) : data[i].branch # ""})
  /\ SumOfField(courseTypeDataOf(data), "records") = Len(data)

\* The courseCount values of Top Trainees add up to the records with a
\* positive score whose email is in emails.
TraineeCountsAddUp(emails) ==
  SumOfField(topTrainees, "courseCount")
    = Cardinality({i \in 1..Len(data) :
                     data[i].email \in emails /\ data[i].postAssessmentScore > 0})

\* C20 as stated: for every non-empty record list the per-group counts add up
\* to the records that contribute: the courseCount values of Top Trainees to
\* the records with a non-empty email and postAssessmentScore > 0, the
\* recordCount values of the branch rollup to the records with a non-empty
\* branch, the Mandatory and Optional counts to the number of records.
C20_CountsAddUp ==
  data # <<>> =>
    /\ TraineeCountsAddUp({data[i].email : i \in 1..Len(data)} \ {""})
    /\ RollupCountsAddUp

\* C20 with the emails that are names inherited from Object.prototype left
\* out of Top Trainees.
C20_CountsAddUpForOwnEmails ==
  data # <<>> =>
    /\ TraineeCountsAddUp({data[i].email : i \in 1..Len(data)} \ ({""} \cup InheritedKeys))
    /\ RollupCountsAddUp

\* Two records with a positive score, one of a@x.com and one of the email
\* "constructor": the courseCount values add up to 1.
C20_Witness ==
  /\ Len(data) = 2
  /\ data[1].email = "a@x.com" /\ data[1].postAssessmentScore > 0
  /\ data[2].email = "constructor" /\ data[2].postAssessmentScore > 0
  /\ SumOfField(topTrainees, "courseCount") = 1

\* A record without a branch next to one of branch b1, one Mandatory and one
\* Optional, under the Bottom 5 view: the branch counts add up to 1, the
\* course-type counts to 2.
C20_RollupWitness ==
  /\ Len(data) = 2 /\ viewType = "bottom5"
  /\ data[1].branch = "" /\ data[2].branch = "b1"
  /\ data[1].courseType # data[2].courseType
  /\ SumOfField(branchData, "recordCount") = 1
  /\ SumOfField(courseTypeDataOf(data), "records") = 2

(***************************************************************************)
(* DataTable: properties                                                   *)
(***************************************************************************)

\* The label names the positions in sortedItems of the first and the last row
\* on screen, and the number of rows of the table.
LabelAgreesWithRows ==
  /\ showingLabel.of = Len(sortedItems)
  /\ paginatedItems # <<>> =>
       /\ showingLabel.from = (actualCurrentPage - 1) * rowsPerPage + 1
       /\ showingLabel.to = showingLabel.from + Len(paginatedItems) - 1
       /\ paginatedItems
            = SubSeq(sortedItems, showingLabel.from, showingLabel.to)

\* C27 as stated: for every table the 'Showing a-b of N' label agrees with the
\* rows on screen: a and b are the 1-based positions in sortedItems of the
\* first and the last row of paginatedItems, for every rowsPerPage a table is
\* created with (10 by default, 5 in the leaderboards) and every page.
C27_LabelAgreesWithRows == LabelAgreesWithRows

\* C27 for the tables of 10 rows a page.
C27_LabelAgreesAtTenRows == rowsPerPage = DefaultRowsPerPage => LabelAgreesWithRows

\* A leaderboard table of 12 rows on its second page shows the rows 6 to 10
\* under the label 'Showing 11-12 of 12'.
C27_Witness ==
  /\ rowsPerPage = LeaderboardRowsPerPage /\ Len(sortedItems) = 12
  /\ actualCurrentPage = 2 /\ Len(paginatedItems) = 5
  /\ paginatedItems = SubSeq(sortedItems, 6, 10)
  /\ showingLabel = [from |-> 11, to |-> 12, of |-> 12]

\* A table of 10 rows a page on its second page: rows 11 and 12, label 11-12.
C27_TenRowsWitness ==
  /\ rowsPerPage = DefaultRowsPerPage /\ Len(sortedItems) = 12
  /\ actualCurrentPage = 2 /\ showingLabel = [from |-> 11, to |-> 12, of |-> 12]

(***************************************************************************)
(* useTheme, ThemeSwitcher and ExportButton                                *)
(***************************************************************************)

Themes == {"light", "dark"}

\* The effect of useTheme on [theme]: classList.add('dark') for the dark
\* theme, classList.remove('dark') for the other; the value is whether the
\* root element carries the class afterwards.
applyTheme(t) == t = "dark"

\* setTheme(prevTheme => (prevTheme === 'light' ? 'dark' : 'light'))
toggled(prevTheme) == IF prevTheme = "light" THEN "dark" ELSE "light"

\* if (isDarkMode) root.classList.remove('dark')
removeForCapture(isDark, root) == IF isDark THEN FALSE ELSE root

\* A finally that restores nothing.
restoreNothing(isDark, root) == root

\* .finally(() => { if (isDarkMode) root.classList.add('dark'); })
restoreAfterCapture(isDark, root) == IF isDark THEN TRUE ELSE root

\* An export between its click and the end of its finally.
InFlight(e) == exportPc[e] \notin {"idle", "saved", "failed"}

NoExportInFlight == \A e \in Exports : ~InFlight(e)

\* After the mount effects of useTheme: the theme is storedTheme ||
\* preferredTheme and the class of the root element follows it.
ThemeInit ==
  /\ theme \in Themes
  /\ rootDark = applyTheme(theme)
  /\ exportPc = [e \in Exports |-> "idle"]
  /\ isDarkMode = [e \in Exports |-> FALSE]

\* The click on ThemeSwitcher: toggleTheme, and the effect on [theme] that the
\* render it causes runs.
toggleTheme ==
  /\ theme' = toggled(theme)
  /\ rootDark' = applyTheme(theme')
  /\ UNCHANGED <<exportPc, isDarkMode>>
  /\ UNCHANGED otherThanTheme

\* The click on ExportButton, up to setTimeout(..., 150); elementRef.current is
\* the section on screen.
handleExport(e) ==
  /\ ~InFlight(e)
  /\ isDarkMode' = [isDarkMode EXCEPT ![e] = rootDark]
  /\ rootDark' = removeForCapture(isDarkMode'[e], rootDark)
  /\ exportPc' = [exportPc EXCEPT ![e] = "delay"]
  /\ UNCHANGED theme
  /\ UNCHANGED otherThanTheme

\* The 150 ms have passed: html2canvas(input, ...) is called.
exportTimeout(e) ==
  /\ exportPc[e] = "delay"
  /\ exportPc' = [exportPc EXCEPT ![e] = "capturing"]
  /\ UNCHANGED <<theme, rootDark, isDarkMode>>
  /\ UNCHANGED otherThanTheme

\* The promise of html2canvas settles: fulfilled with a canvas, or rejected.
captureSettles(e) ==
  /\ exportPc[e] = "capturing"
  /\ \E next \in {"then", "catch"} : exportPc' = [exportPc EXCEPT ![e] = next]
  /\ UNCHANGED <<theme, rootDark, isDarkMode>>
  /\ UNCHANGED otherThanTheme

\* .then(canvas => { ... pdf.save(...) }): the file is saved, or jsPDF throws
\* and the chain goes on to catch.
exportThen(e) ==
  /\ exportPc[e] = "then"
  /\ \E next \in {"finallySaved", "catch"} : exportPc' = [exportPc EXCEPT ![e] = next]
  /\ UNCHANGED <<theme, rootDark, isDarkMode>>
  /\ UNCHANGED otherThanTheme

\* .catch(err => console.error("Failed to export PDF", err))
exportCatch(e) ==
  /\ exportPc[e] = "catch"
  /\ exportPc' = [exportPc EXCEPT ![e] = "finallyFailed"]
  /\ UNCHANGED <<theme, rootDark, isDarkMode>>
  /\ UNCHANGED otherThanTheme

\* .finally(...)
exportFinally(e) ==
  /\ exportPc[e] \in {"finallySaved", "finallyFailed"}
  /\ rootDark' = restoreAfterCapture(isDarkMode[e], rootDark)
  /\ exportPc' = [exportPc EXCEPT ![e] = IF exportPc[e] = "finallySaved" THEN "saved" ELSE "failed"]
  /\ UNCHANGED <<theme, isDarkMode>>
  /\ UNCHANGED otherThanTheme

InitTheme ==
  /\ ThemeInit /\ DashInit /\ TableIdle /\ BoardIdle /\ InsightsIdle /\ ComparisonIdle
  /\ TrendIdle /\ BranchIdle /\ SessionIdle /\ PanelIdle

NextTheme ==
  \/ toggleTheme
  \/ \E e \in Exports :
       \/ handleExport(e) \/ exportTimeout(e) \/ captureSettles(e)
       \/ exportThen(e) \/ exportCatch(e) \/ exportFinally(e)

SpecTheme == InitTheme /\ [][NextTheme]_vars

(***************************************************************************)
(* ExportButton and useTheme: properties                                   *)
(***************************************************************************)

\* Whether export e was started with the class on the root element, seen from
\* a step of e: at the click it is the class itself, later the isDarkMode of
\* the call.
StartedDark(e) == IF InFlight(e) THEN isDarkMode[e] ELSE rootDark

\* One step of export e, from the class's point of view.
ExportStepKeepsClass(e) ==
  /\ (~InFlight(e) /\ exportPc'[e] = "delay" /\ rootDark) =>
       (~rootDark' /\ isDarkMode'[e])
  /\ (exportPc[e] \in {"finallySaved", "finallyFailed"} /\ ~InFlight(e)' /\ isDarkMode[e]) =>
       rootDark'
  /\ (exportPc'[e] # exportPc[e] /\ ~StartedDark(e)) =>
       (rootDark' = rootDark /\ ~isDarkMode'[e])

\* C23: an export started while the root element carries 'dark' removes the
\* class at the click, and the step that ends it, after a saved file as after a
\* failure, leaves the class on the root element; no step of an export started
\* without the class changes the class.
C23_ExportRestoresDarkClass == [][\A e \in Exports : ExportStepKeepsClass(e)]_vars

\* An export started in the dark theme has failed and another has saved its
\* file: the class is back on the root element.
C23_Witness ==
  /\ theme = "dark" /\ rootDark
  /\ exportPc[1] = "failed" /\ isDarkMode[1]
  /\ exportPc[2] = "saved" /\ isDarkMode[2]

\* An export started in the light theme has ended: no class.
C23_LightWitness ==
  /\ theme = "light" /\ ~rootDark /\ exportPc[1] = "saved" /\ ~isDarkMode[1]

\* C24 as stated: whenever no export is in flight, the root element carries
\* 'dark' exactly when the theme state is 'dark'.
C24_ClassFollowsTheme == NoExportInFlight => (rootDark <=> theme = "dark")

\* C24 before the first export: the class follows the theme through every
\* toggle.
C24_ClassFollowsThemeBeforeExports ==
  (\A e \in Exports : exportPc[e] = "idle") => (rootDark <=> theme = "dark")

\* The theme was toggled to light while an export started in the dark theme
\* was in flight: the export has ended and the root element carries 'dark'.
C24_Witness ==
  /\ NoExportInFlight /\ exportPc[1] = "saved" /\ isDarkMode[1]
  /\ theme = "light" /\ rootDark

(***************************************************************************)
(* Dashboard: the load, the section on screen, and the chart clicks        *)
(***************************************************************************)

\* The ids of sections.
Sections ==
  {"overview", "leaderboard", "actionable-insights", "branch-comparison",
   "comparison-tool", "course-analysis", "learner-performance", "trend-analysis",
   "engagement-performance"}

\* What the constant can hold: the address, the placeholder of the
\* instructions, and nothing.
SheetUrls == {GOOGLE_SHEET_CSV_URL, "PASTE_YOUR_GOOGLE_SHEET_CSV_URL_HERE", ""}

\* !GOOGLE_SHEET_CSV_URL || GOOGLE_SHEET_CSV_URL === 'PASTE_...'
notConfigured(url) == url = "" \/ url = "PASTE_YOUR_GOOGLE_SHEET_CSV_URL_HERE"

NotConfiguredMessage == "Google Sheet URL is not configured."
FailedToLoadMessage == "Failed to load data."

\* Longest sheet a session loads.
MaxSessionRecords == 1

\* The rows of the sheets of a session: one with a branch and a supervisor, of
\* an Optional course, and one without either, of a Mandatory course.
SessionPool == {row \in RecordPool : row.traineeName \in {"B", "C"}}

SessionSheets == UNION {[1..n -> SessionPool] : n \in 0..MaxSessionRecords}

\* The emails of the rows a leaderboard or an at-risk table shows.
LearnerEmails == {"a@x.com"}

\* After the first render: the loading screen, the load effect not yet run.
\* Under React.StrictMode a development build runs the effect a second time.
SessionInit ==
  /\ sheetUrl \in SheetUrls
  /\ loading = TRUE /\ error = Null
  /\ \E runs \in {{"mount"}, EffectRuns} :
       loadPc = [run \in EffectRuns |-> IF run \in runs THEN "effect" ELSE "none"]
  /\ activeSection = "overview" /\ selectedLearnerEmail = ""

\* What no step of the session touches.
outsideSession == <<tableVars, boardVars, panelVars, themeVars>>

\* The state of the sections as useState leaves it.
sectionVars == <<compareVars, insightVars, trendVars, branchVars>>

\* The load effect, up to the call of fetchTrainingData.
loadEffect(run) ==
  /\ loadPc[run] = "effect"
  /\ IF notConfigured(sheetUrl)
       THEN /\ error' = Some(NotConfiguredMessage)
            /\ loading' = FALSE
            /\ loadPc' = [loadPc EXCEPT ![run] = "notConfigured"]
       ELSE /\ loadPc' = [loadPc EXCEPT ![run] = "fetching"]
            /\ UNCHANGED <<error, loading>>
  /\ UNCHANGED <<sheetUrl, activeSection, selectedLearnerEmail>>
  /\ UNCHANGED <<dashVars, sectionVars, outsideSession>>

\* fetchTrainingData resolves: .then(data => { setAllData(data); })
loadThen(run) ==
  /\ loadPc[run] = "fetching"
  /\ \E rows \in SessionSheets :
       /\ allData' = fetchTrainingData(rows)
       /\ filters' = filters
       /\ filteredData' = filteredDataOf(allData', filters')
  /\ loadPc' = [loadPc EXCEPT ![run] = "resolved"]
  /\ UNCHANGED <<sheetUrl, loading, error, activeSection, selectedLearnerEmail>>
  /\ UNCHANGED <<sectionVars, outsideSession>>

\* fetchTrainingData rejects (fetch, response.ok, parse): .catch(err => {
\* setError("Failed to load data. ...") })
loadCatch(run) ==
  /\ loadPc[run] = "fetching"
  /\ error' = Some(FailedToLoadMessage)
  /\ loadPc' = [loadPc EXCEPT ![run] = "rejected"]
  /\ UNCHANGED <<sheetUrl, loading, activeSection, selectedLearnerEmail>>
  /\ UNCHANGED <<dashVars, sectionVars, outsideSession>>

\* .finally(() => { setLoading(false); }), after then or after catch.
loadFinally(run) ==
  /\ loadPc[run] \in {"resolved", "rejected"}
  /\ loading' = FALSE
  /\ loadPc' = [loadPc EXCEPT ![run] = IF loadPc[run] = "resolved" THEN "loaded" ELSE "failed"]
  /\ UNCHANGED <<sheetUrl, error, activeSection, selectedLearnerEmail>>
  /\ UNCHANGED <<dashVars, sectionVars, outsideSession>>

\* The sections are on screen: not the loading screen, not the error box.
SectionShown(section) == ~loading /\ error = Null /\ activeSection = section

\* FilterPanel is on screen.
FilterPanelShown ==
  ~loading /\ error = Null /\ Len(allData) > 0 /\ activeSection # "comparison-tool"

\* setActiveSection(section) and the render after it: a section that leaves the
\* screen loses its state, the one that enters starts from useState.
showSection(section) ==
  /\ activeSection' = section
  /\ IF section = activeSection
       THEN UNCHANGED sectionVars
       ELSE /\ groupA' = [category |-> "", value |-> ""]
            /\ groupB' = [category |-> "", value |-> ""]
            /\ thresholds' = DEFAULT_THRESHOLDS
            /\ showMA' = TRUE
            /\ viewType' = "all" /\ sortBy' = "completionRate"

\* Sidebar: setActiveSection(section)
setActiveSection(section) ==
  /\ ~loading
  /\ showSection(section)
  /\ UNCHANGED <<sheetUrl, loading, error, loadPc, selectedLearnerEmail>>
  /\ UNCHANGED <<dashVars, outsideSession>>

\* handleNavigation(section) from the cards of Overview, which pass no filters.
handleNavigation(section) ==
  /\ SectionShown("overview")
  /\ showSection(section)
  /\ UNCHANGED <<sheetUrl, loading, error, loadPc, selectedLearnerEmail>>
  /\ UNCHANGED <<dashVars, outsideSession>>

\* handleSelectLearnerAndNavigate(email) from a row of Leaderboard or of
\* ActionableInsights.
handleSelectLearnerAndNavigate(email) ==
  /\ SectionShown("leaderboard") \/ SectionShown("actionable-insights")
  /\ Len(filteredData) > 0
  /\ selectedLearnerEmail' = email
  /\ showSection("learner-performance")
  /\ UNCHANGED <<sheetUrl, loading, error, loadPc>>
  /\ UNCHANGED <<dashVars, outsideSession>>

\* The names of the bars of branchData: the branches of data, none for a record
\* without a branch.
branchBarNames(d) == {d[i].branch : i \in 1..Len(d)} \ {""}

\* The names of the bars of courseData.
courseBarNames(d) == {d[i].courseTitle : i \in 1..Len(d)} \ {""}

\* The names of the bars of courseTypeData that have a record.
courseTypeBarNames(d) == {d[i].courseType : i \in 1..Len(d)}

\* A click that never clears the selection.
clickSelectionAlways(selection, clicked) == <<clicked>>

\* isAlreadyFiltered ? [] : [clicked]
clickSelection(selection, clicked) ==
  IF Len(selection) = 1 /\ selection[1] = clicked THEN <<>> ELSE <<clicked>>

\* setFilters(prev => ({ ...prev, [dimension]: ... })) of a chart click, and the
\* filteredData memo recomputed.
chartClick(dimension, clicked) ==
  /\ filters' = [filters EXCEPT ![dimension] = clickSelection(filters[dimension], clicked)]
  /\ allData' = allData
  /\ filteredData' = filteredDataOf(allData', filters')

\* BranchComparison.handleBarClick(payload)
handleBarClick ==
  /\ SectionShown("branch-comparison")
  /\ \E name \in branchBarNames(filteredData) : chartClick("branchFilter", name)
  /\ UNCHANGED <<sessionVars, sectionVars, outsideSession>>

\* CourseAnalysis.handleCourseTypeClick(payload)
handleCourseTypeClick ==
  /\ SectionShown("course-analysis")
  /\ \E name \in courseTypeBarNames(filteredData) : chartClick("courseTypeFilter", name)
  /\ UNCHANGED <<sessionVars, sectionVars, outsideSession>>

\* CourseAnalysis.handleCourseClick(payload)
handleCourseClick ==
  /\ SectionShown("course-analysis")
  /\ \E name \in courseBarNames(filteredData) : chartClick("courseFilter", name)
  /\ UNCHANGED <<sessionVars, sectionVars, outsideSession>>

\* A ComparisonTool that is handed the filtered records.
comparisonToolDataFiltered(all, filtered) == filtered

\* renderSection, case 'comparison-tool': the data handed to ComparisonTool.
comparisonToolData(all, filtered) == all

\* The KPIs of a group as ComparisonTool shows them.
shownKpis(all, filtered, group) ==
  calculateKpis(filterData(comparisonToolData(all, filtered), group))

InitSession ==
  /\ SessionInit /\ DashInit /\ TableIdle /\ BoardIdle /\ InsightsIdle /\ ComparisonIdle
  /\ TrendIdle /\ BranchIdle /\ PanelIdle /\ ThemeIdle

NextSession ==
  \/ \E run \in EffectRuns :
       loadEffect(run) \/ loadThen(run) \/ loadCatch(run) \/ loadFinally(run)
  \/ \E section \in Sections : setActiveSection(section)
  \/ \E section \in {"leaderboard", "actionable-insights"} : handleNavigation(section)
  \/ \E email \in LearnerEmails : handleSelectLearnerAndNavigate(email)
  \/ handleBarClick
  \/ handleCourseTypeClick
  \/ handleCourseClick
  \/ FilterPanelShown /\ handleResetFilters
  \/ SectionShown("comparison-tool") /\ (handleCategoryChange \/ handleValueChange)
  \/ SectionShown("actionable-insights") /\
       \E value \in ThresholdInputs : handleThresholdChange("AT_RISK_COMPLETION", value)
  \/ SectionShown("trend-analysis") /\ toggleShowMA
  \/ SectionShown("branch-comparison") /\
       ((\E id \in ViewTypes : setViewType(id)) \/ (\E id \in SortKeys : setSortBy(id)))

SpecSession == InitSession /\ [][NextSession]_vars

(***************************************************************************)
(* Dashboard: properties of the load                                       *)
(***************************************************************************)

\* The run has settled: URL not configured, fetch success, fetch or parse
\* failure.
Settled(pc) == pc \in {"notConfigured", "loaded", "failed"}

\* The step of a run in which it settles.
Settles(run) == ~Settled(loadPc[run]) /\ Settled(loadPc'[run])

\* The step of a run that stores the records: its then.
Stores(run) == loadPc[run] = "fetching" /\ loadPc'[run] = "resolved"

\* The run has stored its records.
Stored(run) == loadPc[run] \in {"resolved", "loaded"}

\* allData and its records change in no step but a then of the loader.
OnlyTheLoaderStores == allData' # allData => \E run \in EffectRuns : Stores(run)

\* A then of the loader is the first one.
StoresOnce ==
  \A run \in EffectRuns : Stores(run) => \A other \in EffectRuns : ~Stored(other)

\* C21 as stated: allData is assigned at most once per session, by the
\* loader's successful result, and no later step (chart click, filter reset,
\* threshold edit, navigation, comparison-group selection) changes it or a
\* record in it.
C21_RecordStoreAssignedOnce == [][OnlyTheLoaderStores /\ StoresOnce]_vars

\* C21 without the count: no step but a then of the loader changes allData.
C21_OnlyTheLoaderStores == [][OnlyTheLoaderStores]_vars

\* C21 where the load effect runs once.
C21_AssignedOnceInOneRun ==
  [][loadPc["strictRemount"] = "none" => OnlyTheLoaderStores /\ StoresOnce]_vars

\* Both runs of the effect have stored their records, the second a different
\* sheet than the first, and the user has gone on to select a comparison group.
C21_Witness ==
  /\ loadPc = [run \in EffectRuns |-> "loaded"]
  /\ Len(allData) = 1 /\ allData[1].traineeName = "C"
  /\ activeSection = "comparison-tool" /\ groupA.value = "d3"

\* One run of the effect, and a chart click after it.
C21_OneRunWitness ==
  /\ loadPc["mount"] = "loaded" /\ loadPc["strictRemount"] = "none"
  /\ Len(allData) = 1 /\ filters.courseTypeFilter = <<"Optional">>
  /\ activeSection = "course-analysis"

\* loading changes once, from true to false, in the step that settles a run.
LoadingEndsOnce ==
  /\ loading' # loading => (loading /\ ~loading' /\ \E run \in EffectRuns : Settles(run))
  /\ (\E run \in EffectRuns : Settled(loadPc'[run])) => ~loading'
  /\ (\A run \in EffectRuns : loadPc'[run] \in {"none", "effect", "fetching"}) => loading'

\* Never an error next to records.
ErrorOrRecords == ~(error' # Null /\ allData' # <<>>)

\* C30 as stated: loading starts true, becomes false in the step that settles
\* the load (URL not configured, fetch success, fetch or parse failure) and
\* never returns to true; a non-null error and a non-empty record store never
\* hold together.
C30_LoadSettlesOnce == [][LoadingEndsOnce /\ ErrorOrRecords]_vars

\* C30 for loading alone.
C30_LoadingEndsOnce == [][LoadingEndsOnce]_vars

\* C30 where the load effect runs once.
C30_SettlesOnceInOneRun ==
  [][loadPc["strictRemount"] = "none" => LoadingEndsOnce /\ ErrorOrRecords]_vars

\* The first run has stored a record, the second has failed: the error box is
\* on screen over a non-empty record store.
C30_Witness ==
  /\ loadPc["mount"] = "loaded" /\ loadPc["strictRemount"] = "failed"
  /\ ~loading /\ error = Some(FailedToLoadMessage) /\ Len(allData) = 1

\* One run each way: not configured, loaded, failed.
C30_NotConfiguredWitness ==
  /\ loadPc["mount"] = "notConfigured" /\ loadPc["strictRemount"] = "none"
  /\ ~loading /\ error = Some(NotConfiguredMessage) /\ allData = <<>>

C30_FailedWitness ==
  /\ loadPc["mount"] = "failed" /\ loadPc["strictRemount"] = "none"
  /\ ~loading /\ error = Some(FailedToLoadMessage) /\ allData = <<>>

(***************************************************************************)
(* ComparisonTool under the global filters                                 *)
(***************************************************************************)

\* The records are loaded, a bar of BranchComparison sets the branch filter,
\* and the groups are selected in ComparisonTool.
NextComparisonFiltered ==
  \/ SetAllData
  \/ \E section \in {"branch-comparison", "comparison-tool"} : setActiveSection(section)
  \/ handleBarClick
  \/ SectionShown("comparison-tool") /\ (handleCategoryChange \/ handleValueChange)

SpecComparisonFiltered == InitComparison /\ [][NextComparisonFiltered]_vars

\* The global filters a state can differ in: one selection in one dimension.
OtherFilters ==
  UNION {{[initialFilters EXCEPT ![name] = selected] : selected \in Selections[name]} :
           name \in DOMAIN Selections}

\* C28: the KPIs of both groups are those of the records of allData that carry
\* the group's value, and they are the same under every other setting of the
\* global filters.
C28_KpisIgnoreGlobalFilters ==
  LET shownA == shownKpis(allData, filteredData, groupA)
      shownB == shownKpis(allData, filteredData, groupB)
  IN  /\ shownA = calculateKpis(filterData(allData, groupA))
      /\ shownB = calculateKpis(filterData(allData, groupB))
      /\ \A f \in OtherFilters :
           LET otherData == filteredDataOf(allData, f)
           IN  /\ shownKpis(allData, otherData, groupA) = shownA
               /\ shownKpis(allData, otherData, groupB) = shownB

\* The branch filter holds b1, and ComparisonTool compares branch b2, which the
\* filter hides, with branch b1.
C28_Witness ==
  /\ activeSection = "comparison-tool"
  /\ filters.branchFilter = <<"b1">> /\ Len(filteredData) < Len(allData)
  /\ groupA = [category |-> "branch", value |-> "b2"]
  /\ groupB = [category |-> "branch", value |-> "b1"]
  /\ Len(filterData(allData, groupA)) > 0
  /\ \A i \in 1..Len(filteredData) : filteredData[i].branch # "b2"

(***************************************************************************)
(* MultiSelectFilter: Select All                                           *)
(***************************************************************************)

\* The field of a record that a filter looks at.
FilterField ==
  [branchFilter |-> "branch", districtHeadFilter |-> "districtHead",
   supervisorFilter |-> "supervisor", courseFilter |-> "courseTitle",
   courseTypeFilter |-> "courseType"]

\* The options FilterPanel hands to a MultiSelectFilter: the values of the
\* field in allData, in order of first appearance; for the course type the
\* values of the enum.
optionsFor(records, filterName) ==
  IF filterName = "courseTypeFilter" THEN <<"Mandatory", "Optional">>
  ELSE filterOptionsOf(records, FilterField[filterName])

\* handleSelect: selected.includes(option) ? selected.filter(item => item !==
\* option) : [...selected, option]
selectOption(selected, option) ==
  IF includes(selected, option)
  THEN SelectSeq(selected, LAMBDA item : item # option)
  ELSE Append(selected, option)

\* handleSelectAll: selected.length === options.length ? [] : options
selectAll(selected, options) == IF Len(selected) = Len(options) THEN <<>> ELSE options

\* The filters whose options are the values of allData.
ValueFilters == {"branchFilter", "districtHeadFilter", "supervisorFilter", "courseFilter"}

\* MultiSelectFilter.handleSelectAll on the filter, handleMultiSelectChange on
\* localFilters, then the debounce timer of FilterPanel: setFilters(localFilters)
\* when the two differ, and the filteredData memo recomputed.
handleSelectAll(filterName) ==
  /\ Len(allData) > 0
  /\ filters' = [filters EXCEPT
                   ![filterName] = selectAll(filters[filterName], optionsFor(allData, filterName))]
  /\ allData' = allData
  /\ filteredData' = filteredDataOf(allData', filters')
  /\ UNCHANGED otherThanDash

NextSelect ==
  \/ SetAllData
  \/ \E filterName \in DOMAIN FilterField : handleSelectAll(filterName)
  \/ handleResetFilters

SpecSelect == InitFilter /\ [][NextSelect]_vars

\* The selections that hold every option of the filter, in every order of
\* selecting them.
FullSelections(filterName) ==
  LET options == optionsFor(allData, filterName)
  IN  {[i \in 1..Len(options) |-> options[order[i]]] :
         order \in Permutations(1..Len(options))}

TicksPerDelay == 2

\* JSON.stringify of a Filters object: the values of its keys, in key order.
JSONstringify(f) ==
  <<f.branchFilter, f.districtHeadFilter, f.supervisorFilter, f.courseFilter,
    f.courseTypeFilter, f.timePeriodFilter.start, f.timePeriodFilter.end>>

\* An effect that leaves a running timer alone.
keepTimeout(pending, local, global) ==
  IF pending = Null
  THEN Some([elapsed |-> 0, localFilters |-> local, filters |-> global])
  ELSE pending

\* The debounce effect on [localFilters, setFilters, filters]: clearTimeout of
\* the timer of the render before, and setTimeout(..., 500) over the
\* localFilters and the filters of this render.
debounceEffect(pending, local, global) ==
  Some([elapsed |-> 0, localFilters |-> local, filters |-> global])

\* The filters the panel of the model edits.
PanelFilters == {"branchFilter", "courseTypeFilter"}

\* FilterPanel mounts over the loaded records: useState(filters), and the
\* debounce effect of the mount.
PanelInit ==
  /\ \E rows \in SessionSheets : Len(rows) > 0 /\ allData = fetchTrainingData(rows)
  /\ filters = initialFilters
  /\ filteredData = filteredDataOf(allData, filters)
  /\ localFilters = filters
  /\ handler = debounceEffect(Null, localFilters, filters)

\* MultiSelectFilter.handleSelect(option), handleMultiSelectChange(filterName,
\* selected) on localFilters, and the debounce effect of the render.
handleSelect(filterName, option) ==
  /\ FilterPanelShown
  /\ localFilters' = [localFilters EXCEPT ![filterName] = selectOption(@, option)]
  /\ handler' = debounceEffect(handler, localFilters', filters)
  /\ UNCHANGED otherThanPanel

\* Time passes while the timer runs.
tick ==
  /\ handler # Null /\ handler[1].elapsed < TicksPerDelay
  /\ handler' = Some([handler[1] EXCEPT !.elapsed = @ + 1])
  /\ localFilters' = localFilters
  /\ UNCHANGED otherThanPanel

\* FilterPanel's effects on [filters] after a change of filters:
\* setLocalFilters(filters), and the debounce effect of the render.
filtersEffects ==
  /\ localFilters' = filters'
  /\ handler' = debounceEffect(handler, localFilters', filters')

\* The callback of setTimeout, 500 ms after the effect: setFilters(localFilters)
\* when the two of its render differ, the filteredData memo recomputed, and the
\* effects on [filters].
handlerTimeout ==
  /\ handler # Null /\ handler[1].elapsed = TicksPerDelay
  /\ IF JSONstringify(handler[1].localFilters) # JSONstringify(handler[1].filters)
       THEN /\ filters' = handler[1].localFilters
            /\ allData' = allData
            /\ filteredData' = filteredDataOf(allData', filters')
            /\ filtersEffects
       ELSE /\ handler' = Null
            /\ UNCHANGED <<localFilters, dashVars>>
  /\ UNCHANGED <<tableVars, boardVars, sectionVars, sessionVars, themeVars>>

\* handleResetFilters with the effects of FilterPanel on [filters].
panelReset ==
  /\ FilterPanelShown
  /\ filters' = initialFilters
  /\ allData' = allData
  /\ filteredData' = filteredDataOf(allData', filters')
  /\ filtersEffects
  /\ UNCHANGED <<tableVars, boardVars, sectionVars, sessionVars, themeVars>>

\* The section of the chart whose bars set a filter.
ChartSection ==
  [branchFilter |-> "branch-comparison", courseTypeFilter |-> "course-analysis",
   courseFilter |-> "course-analysis"]

\* The names of the bars of that chart.
barNames(filterName, d) ==
  CASE filterName = "branchFilter" -> branchBarNames(d)
    [] filterName = "courseTypeFilter" -> courseTypeBarNames(d)
    [] filterName = "courseFilter" -> courseBarNames(d)

\* handleBarClick, handleCourseTypeClick and handleCourseClick on the bar of
\* that name, with the effects of FilterPanel on [filters].
barClicked(filterName, name) ==
  /\ SectionShown(ChartSection[filterName]) /\ FilterPanelShown
  /\ name \in barNames(filterName, filteredData)
  /\ chartClick(filterName, name)
  /\ filtersEffects
  /\ UNCHANGED <<tableVars, boardVars, sectionVars, sessionVars, themeVars>>

InitPanel ==
  /\ PanelInit /\ TableIdle /\ BoardIdle /\ InsightsIdle /\ ComparisonIdle /\ TrendIdle
  /\ BranchIdle /\ SessionIdle /\ ThemeIdle

NextPanel ==
  \/ \E filterName \in PanelFilters :
       \E option \in Range(optionsFor(allData, filterName)) : handleSelect(filterName, option)
  \/ tick
  \/ handlerTimeout
  \/ panelReset
  \/ \E filterName \in DOMAIN ChartSection :
       \E name \in barNames(filterName, filteredData) : barClicked(filterName, name)
  \/ \E section \in {"branch-comparison", "course-analysis"} : setActiveSection(section)

SpecPanel == InitPanel /\ [][NextPanel]_vars

(***************************************************************************)
(* FilterPanel and the chart clicks: properties                            *)
(***************************************************************************)

\* A step of handleSelect: localFilters changes and filters does not.
EditStep == localFilters' # localFilters /\ filters' = filters

\* A click on a bar of one of the three charts.
ChartClickStep ==
  \E filterName \in DOMAIN ChartSection :
    \E name \in barNames(filterName, filteredData) : barClicked(filterName, name)

\* Each edit cancels the pending update and starts the 500 ms again, over the
\* edited localFilters.
DebounceRestarts ==
  EditStep =>
    handler' = Some([elapsed |-> 0, localFilters |-> localFilters', filters |-> filters])

\* filters changes through the panel's edits only when the timer has run its
\* 500 ms since the last edit, and then to the localFilters of the last edit;
\* the timer that follows finds nothing to update.
DebounceDelivers ==
  (filters' # filters /\ ~panelReset /\ ~ChartClickStep) =>
    /\ handler # Null /\ handler[1].elapsed = TicksPerDelay
    /\ filters' = localFilters /\ localFilters' = filters'
    /\ handler' # Null /\ handler'[1].localFilters = handler'[1].filters

\* C22: an edit reaches the global filters only after 500 ms without a further
\* edit, each new edit cancels the pending update, and the one update after a
\* burst of edits carries the value of the last edit.
C22_EditsAreDebounced == [][DebounceRestarts /\ DebounceDelivers]_vars

\* Two edits in a row with no update between them, and the timer of the second
\* has run its 500 ms: the update to come carries both course types.
C22_Witness ==
  /\ localFilters.courseTypeFilter = <<"Mandatory", "Optional">>
  /\ filters.courseTypeFilter = <<>>
  /\ handler # Null /\ handler[1].elapsed = TicksPerDelay
  /\ handler[1].localFilters = localFilters

\* An edit of the filter waits for its timer.
PendingEdit(filterName) == handler # Null /\ localFilters[filterName] # filters[filterName]

\* A pending edit stays pending or reaches filters, unless the step is an edit
\* of the same filter or Reset.
EditKept(filterName) ==
  PendingEdit(filterName) =>
    \/ localFilters'[filterName] = localFilters[filterName] /\ handler' # Null
    \/ EditStep /\ localFilters'[filterName] # localFilters[filterName]
    \/ panelReset

\* C25 as stated: a FilterPanel edit is never lost, also when the global
\* filters are changed by a chart click while the edit is pending.
C25_EditIsNeverLost == [][\A filterName \in DOMAIN FilterField : EditKept(filterName)]_vars

\* C25 for the steps that are no chart click.
C25_EditKeptWithoutChartClick ==
  [][~ChartClickStep => \A filterName \in DOMAIN FilterField : EditKept(filterName)]_vars

\* An edit of the course type is pending in BranchComparison, where a bar can
\* be clicked.
C25_Witness ==
  /\ PendingEdit("courseTypeFilter") /\ localFilters.courseTypeFilter = <<"Mandatory">>
  /\ SectionShown("branch-comparison") /\ branchBarNames(filteredData) # {}

\* What a click on the bar does to filters: the filter of the chart toggles
\* between the bar alone and nothing, the five other fields stay, and the bar
\* is still on the chart.
ClickSetsOneFilter(filterName, name) ==
  /\ \A other \in DOMAIN filters \ {filterName} : filters'[other] = filters[other]
  /\ filters'[filterName] = IF filters[filterName] = <<name>> THEN <<>> ELSE <<name>>
  /\ allData' = allData
  /\ name \in barNames(filterName, filteredData')

\* C29 as stated: a click changes only the filter of its chart, to the bar
\* alone or, where the bar was alone, to nothing; a second click on the same
\* bar always leaves the selection empty.
C29_TwoClicksClear ==
  [][\A filterName \in DOMAIN ChartSection : \A name \in barNames(filterName, filteredData) :
       barClicked(filterName, name) =>
         /\ ClickSetsOneFilter(filterName, name)
         /\ clickSelection(filters'[filterName], name) = <<>>]_vars

\* C29, amended: a second click on the same bar leaves the selection empty,
\* unless the bar was the sole selection before the first click: then it is
\* the sole selection again.
C29_TwoClicksToggle ==
  [][\A filterName \in DOMAIN ChartSection : \A name \in barNames(filterName, filteredData) :
       barClicked(filterName, name) =>
         /\ ClickSetsOneFilter(filterName, name)
         /\ clickSelection(filters'[filterName], name)
              = IF filters[filterName] = <<name>> THEN <<name>> ELSE <<>>]_vars

\* The bar of the Optional courses was clicked while both course types were
\* not the selection: it is the sole selection, and its bar is on the chart.
C29_Witness ==
  /\ SectionShown("course-analysis")
  /\ filters.courseTypeFilter = <<"Optional">> /\ localFilters = filters
  /\ filters.branchFilter = <<"b2">>
  /\ "Optional" \in courseTypeBarNames(filteredData)

====
